---- MODULE Spec2Model ----
(***************************************************************************)
(* Model of the PhishScan analysis engine (src/phishing_detector.py).      *)
(*                                                                         *)
(* Text is modelled as a sequence of one-character strings, so that the    *)
(* string functions of the program (strip, urlparse, geturl, the domain    *)
(* splitter, substring tests) are computed and not assumed.  A code point  *)
(* that is not printable ASCII is one element whose name starts with "U+". *)
(***************************************************************************)
EXTENDS Integers, Sequences, FiniteSets, TLC

(***************************************************************************)
(* Text helpers: Python str methods used by the program.                   *)
(***************************************************************************)

\* A string literal as a sequence of one-character strings.
Chars(s) == [i \in 1..Len(s) |-> SubSeq(s, i, i)]

\* The code point of one element of a text: a printable ASCII character or
\* one of the escapes \t \n \f \r stands for itself, any other code point
\* (the grave accent U+0060 among them) is named "U+" and its hexadecimal
\* digits.
CodePoint(c) ==
    LET upto95 ==
            " !\"#$%&'()*+,-./0123456789:;<=>?@ABCDEFGHIJKLMNOPQRSTUVWXYZ[\\]^_"
        from97 == "abcdefghijklmnopqrstuvwxyz{|}~"
        Digit(d) == (CHOOSE k \in 1..16 : SubSeq("0123456789ABCDEF", k, k) = d) - 1
        RECURSIVE Value(_, _)
        Value(h, k) ==
            IF k = 2 THEN 0 ELSE 16 * Value(h, k - 1) + Digit(SubSeq(h, k, k))
        At(text, base, ks) == base + (CHOOSE k \in ks : SubSeq(text, k, k) = c)
    IN  IF Len(c) > 1 THEN Value(c, Len(c))
        ELSE IF c = "\t" THEN 9
        ELSE IF c = "\n" THEN 10
        ELSE IF c = "\f" THEN 12
        ELSE IF c = "\r" THEN 13
        ELSE IF \E k \in 1..30 : SubSeq(from97, k, k) = c THEN At(from97, 96, 1..30)
        ELSE At(upto95, 31, 1..64)

\* chr(n): the element of a text that stands for code point n.
CharOf(n) ==
    LET upto95 ==
            " !\"#$%&'()*+,-./0123456789:;<=>?@ABCDEFGHIJKLMNOPQRSTUVWXYZ[\\]^_"
        from97 == "abcdefghijklmnopqrstuvwxyz{|}~"
        \* the hexadecimal digits of m, at least w of them
        RECURSIVE Hex(_, _)
        Hex(m, w) ==
            IF m = 0 /\ w =< 0 THEN ""
            ELSE Hex(m \div 16, w - 1) \o SubSeq("0123456789ABCDEF", (m % 16) + 1, (m % 16) + 1)
    IN  IF n >= 32 /\ n =< 95 THEN SubSeq(upto95, n - 31, n - 31)
        ELSE IF n >= 97 /\ n =< 126 THEN SubSeq(from97, n - 96, n - 96)
        ELSE IF n = 9 THEN "\t"
        ELSE IF n = 10 THEN "\n"
        ELSE IF n = 12 THEN "\f"
        ELSE IF n = 13 THEN "\r"
        ELSE "U+" \o Hex(n, 4)

\* The ASCII letters.
Letters ==
    {SubSeq("ABCDEFGHIJKLMNOPQRSTUVWXYZabcdefghijklmnopqrstuvwxyz", k, k) : k \in 1..52}

\* str.lower(), the code points with a lower-case form of one code point:
\* runs <<first, last, step, delta>>, every step-th code point from first to
\* last has the lower-case form delta further on (Unicode 14, Python 3.11).
LowerRuns == <<
    <<65, 90, 1, 32>>, <<192, 214, 1, 32>>, <<216, 222, 1, 32>>,
    <<256, 302, 2, 1>>, <<306, 310, 2, 1>>, <<313, 327, 2, 1>>,
    <<330, 374, 2, 1>>, <<376, 376, 1, -121>>, <<377, 381, 2, 1>>,
    <<385, 385, 1, 210>>, <<386, 388, 2, 1>>, <<390, 390, 1, 206>>,
    <<391, 391, 1, 1>>, <<393, 394, 1, 205>>, <<395, 395, 1, 1>>,
    <<398, 398, 1, 79>>, <<399, 399, 1, 202>>, <<400, 400, 1, 203>>,
    <<401, 401, 1, 1>>, <<403, 403, 1, 205>>, <<404, 404, 1, 207>>,
    <<406, 406, 1, 211>>, <<407, 407, 1, 209>>, <<408, 408, 1, 1>>,
    <<412, 412, 1, 211>>, <<413, 413, 1, 213>>, <<415, 415, 1, 214>>,
    <<416, 420, 2, 1>>, <<422, 422, 1, 218>>, <<423, 423, 1, 1>>,
    <<425, 425, 1, 218>>, <<428, 428, 1, 1>>, <<430, 430, 1, 218>>,
    <<431, 431, 1, 1>>, <<433, 434, 1, 217>>, <<435, 437, 2, 1>>,
    <<439, 439, 1, 219>>, <<440, 440, 1, 1>>, <<444, 444, 1, 1>>,
    <<452, 452, 1, 2>>, <<453, 453, 1, 1>>, <<455, 455, 1, 2>>,
    <<456, 456, 1, 1>>, <<458, 458, 1, 2>>, <<459, 475, 2, 1>>,
    <<478, 494, 2, 1>>, <<497, 497, 1, 2>>, <<498, 500, 2, 1>>,
    <<502, 502, 1, -97>>, <<503, 503, 1, -56>>, <<504, 542, 2, 1>>,
    <<544, 544, 1, -130>>, <<546, 562, 2, 1>>, <<570, 570, 1, 10795>>,
    <<571, 571, 1, 1>>, <<573, 573, 1, -163>>, <<574, 574, 1, 10792>>,
    <<577, 577, 1, 1>>, <<579, 579, 1, -195>>, <<580, 580, 1, 69>>,
    <<581, 581, 1, 71>>, <<582, 590, 2, 1>>, <<880, 882, 2, 1>>,
    <<886, 886, 1, 1>>, <<895, 895, 1, 116>>, <<902, 902, 1, 38>>,
    <<904, 906, 1, 37>>, <<908, 908, 1, 64>>, <<910, 911, 1, 63>>,
    <<913, 929, 1, 32>>, <<931, 939, 1, 32>>, <<975, 975, 1, 8>>,
    <<984, 1006, 2, 1>>, <<1012, 1012, 1, -60>>, <<1015, 1015, 1, 1>>,
    <<1017, 1017, 1, -7>>, <<1018, 1018, 1, 1>>, <<1021, 1023, 1, -130>>,
    <<1024, 1039, 1, 80>>, <<1040, 1071, 1, 32>>, <<1120, 1152, 2, 1>>,
    <<1162, 1214, 2, 1>>, <<1216, 1216, 1, 15>>, <<1217, 1229, 2, 1>>,
    <<1232, 1326, 2, 1>>, <<1329, 1366, 1, 48>>, <<4256, 4293, 1, 7264>>,
    <<4295, 4295, 1, 7264>>, <<4301, 4301, 1, 7264>>,
    <<5024, 5103, 1, 38864>>, <<5104, 5109, 1, 8>>, <<7312, 7354, 1, -3008>>,
    <<7357, 7359, 1, -3008>>, <<7680, 7828, 2, 1>>, <<7838, 7838, 1, -7615>>,
    <<7840, 7934, 2, 1>>, <<7944, 7951, 1, -8>>, <<7960, 7965, 1, -8>>,
    <<7976, 7983, 1, -8>>, <<7992, 7999, 1, -8>>, <<8008, 8013, 1, -8>>,
    <<8025, 8031, 2, -8>>, <<8040, 8047, 1, -8>>, <<8072, 8079, 1, -8>>,
    <<8088, 8095, 1, -8>>, <<8104, 8111, 1, -8>>, <<8120, 8121, 1, -8>>,
    <<8122, 8123, 1, -74>>, <<8124, 8124, 1, -9>>, <<8136, 8139, 1, -86>>,
    <<8140, 8140, 1, -9>>, <<8152, 8153, 1, -8>>, <<8154, 8155, 1, -100>>,
    <<8168, 8169, 1, -8>>, <<8170, 8171, 1, -112>>, <<8172, 8172, 1, -7>>,
    <<8184, 8185, 1, -128>>, <<8186, 8187, 1, -126>>, <<8188, 8188, 1, -9>>,
    <<8486, 8486, 1, -7517>>, <<8490, 8490, 1, -8383>>,
    <<8491, 8491, 1, -8262>>, <<8498, 8498, 1, 28>>, <<8544, 8559, 1, 16>>,
    <<8579, 8579, 1, 1>>, <<9398, 9423, 1, 26>>, <<11264, 11311, 1, 48>>,
    <<11360, 11360, 1, 1>>, <<11362, 11362, 1, -10743>>,
    <<11363, 11363, 1, -3814>>, <<11364, 11364, 1, -10727>>,
    <<11367, 11371, 2, 1>>, <<11373, 11373, 1, -10780>>,
    <<11374, 11374, 1, -10749>>, <<11375, 11375, 1, -10783>>,
    <<11376, 11376, 1, -10782>>, <<11378, 11378, 1, 1>>,
    <<11381, 11381, 1, 1>>, <<11390, 11391, 1, -10815>>,
    <<11392, 11490, 2, 1>>, <<11499, 11501, 2, 1>>, <<11506, 11506, 1, 1>>,
    <<42560, 42604, 2, 1>>, <<42624, 42650, 2, 1>>, <<42786, 42798, 2, 1>>,
    <<42802, 42862, 2, 1>>, <<42873, 42875, 2, 1>>,
    <<42877, 42877, 1, -35332>>, <<42878, 42886, 2, 1>>,
    <<42891, 42891, 1, 1>>, <<42893, 42893, 1, -42280>>,
    <<42896, 42898, 2, 1>>, <<42902, 42920, 2, 1>>,
    <<42922, 42922, 1, -42308>>, <<42923, 42923, 1, -42319>>,
    <<42924, 42924, 1, -42315>>, <<42925, 42925, 1, -42305>>,
    <<42926, 42926, 1, -42308>>, <<42928, 42928, 1, -42258>>,
    <<42929, 42929, 1, -42282>>, <<42930, 42930, 1, -42261>>,
    <<42931, 42931, 1, 928>>, <<42932, 42946, 2, 1>>,
    <<42948, 42948, 1, -48>>, <<42949, 42949, 1, -42307>>,
    <<42950, 42950, 1, -35384>>, <<42951, 42953, 2, 1>>,
    <<42960, 42960, 1, 1>>, <<42966, 42968, 2, 1>>, <<42997, 42997, 1, 1>>,
    <<65313, 65338, 1, 32>>, <<66560, 66599, 1, 40>>,
    <<66736, 66771, 1, 40>>, <<66928, 66938, 1, 39>>,
    <<66940, 66954, 1, 39>>, <<66956, 66962, 1, 39>>,
    <<66964, 66965, 1, 39>>, <<68736, 68786, 1, 64>>,
    <<71840, 71871, 1, 32>>, <<93760, 93791, 1, 32>>,
    <<125184, 125217, 1, 34>> >>

\* The code points with the Unicode property Case_Ignorable, as runs
\* <<first, last>>: str.lower() skips them around a capital sigma.
CaseIgnorableRuns == <<
    <<39, 39>>, <<46, 46>>, <<58, 58>>, <<94, 94>>, <<96, 96>>, <<168, 168>>,
    <<173, 173>>, <<175, 175>>, <<180, 180>>, <<183, 184>>, <<688, 879>>,
    <<884, 885>>, <<890, 890>>, <<900, 901>>, <<903, 903>>, <<1155, 1161>>,
    <<1369, 1369>>, <<1375, 1375>>, <<1425, 1469>>, <<1471, 1471>>,
    <<1473, 1474>>, <<1476, 1477>>, <<1479, 1479>>, <<1524, 1524>>,
    <<1536, 1541>>, <<1552, 1562>>, <<1564, 1564>>, <<1600, 1600>>,
    <<1611, 1631>>, <<1648, 1648>>, <<1750, 1757>>, <<1759, 1768>>,
    <<1770, 1773>>, <<1807, 1807>>, <<1809, 1809>>, <<1840, 1866>>,
    <<1958, 1968>>, <<2027, 2037>>, <<2042, 2042>>, <<2045, 2045>>,
    <<2070, 2093>>, <<2137, 2139>>, <<2184, 2184>>, <<2192, 2193>>,
    <<2200, 2207>>, <<2249, 2306>>, <<2362, 2362>>, <<2364, 2364>>,
    <<2369, 2376>>, <<2381, 2381>>, <<2385, 2391>>, <<2402, 2403>>,
    <<2417, 2417>>, <<2433, 2433>>, <<2492, 2492>>, <<2497, 2500>>,
    <<2509, 2509>>, <<2530, 2531>>, <<2558, 2558>>, <<2561, 2562>>,
    <<2620, 2620>>, <<2625, 2626>>, <<2631, 2632>>, <<2635, 2637>>,
    <<2641, 2641>>, <<2672, 2673>>, <<2677, 2677>>, <<2689, 2690>>,
    <<2748, 2748>>, <<2753, 2757>>, <<2759, 2760>>, <<2765, 2765>>,
    <<2786, 2787>>, <<2810, 2815>>, <<2817, 2817>>, <<2876, 2876>>,
    <<2879, 2879>>, <<2881, 2884>>, <<2893, 2893>>, <<2901, 2902>>,
    <<2914, 2915>>, <<2946, 2946>>, <<3008, 3008>>, <<3021, 3021>>,
    <<3072, 3072>>, <<3076, 3076>>, <<3132, 3132>>, <<3134, 3136>>,
    <<3142, 3144>>, <<3146, 3149>>, <<3157, 3158>>, <<3170, 3171>>,
    <<3201, 3201>>, <<3260, 3260>>, <<3263, 3263>>, <<3270, 3270>>,
    <<3276, 3277>>, <<3298, 3299>>, <<3328, 3329>>, <<3387, 3388>>,
    <<3393, 3396>>, <<3405, 3405>>, <<3426, 3427>>, <<3457, 3457>>,
    <<3530, 3530>>, <<3538, 3540>>, <<3542, 3542>>, <<3633, 3633>>,
    <<3636, 3642>>, <<3654, 3662>>, <<3761, 3761>>, <<3764, 3772>>,
    <<3782, 3782>>, <<3784, 3789>>, <<3864, 3865>>, <<3893, 3893>>,
    <<3895, 3895>>, <<3897, 3897>>, <<3953, 3966>>, <<3968, 3972>>,
    <<3974, 3975>>, <<3981, 3991>>, <<3993, 4028>>, <<4038, 4038>>,
    <<4141, 4144>>, <<4146, 4151>>, <<4153, 4154>>, <<4157, 4158>>,
    <<4184, 4185>>, <<4190, 4192>>, <<4209, 4212>>, <<4226, 4226>>,
    <<4229, 4230>>, <<4237, 4237>>, <<4253, 4253>>, <<4348, 4348>>,
    <<4957, 4959>>, <<5906, 5908>>, <<5938, 5939>>, <<5970, 5971>>,
    <<6002, 6003>>, <<6068, 6069>>, <<6071, 6077>>, <<6086, 6086>>,
    <<6089, 6099>>, <<6103, 6103>>, <<6109, 6109>>, <<6155, 6159>>,
    <<6211, 6211>>, <<6277, 6278>>, <<6313, 6313>>, <<6432, 6434>>,
    <<6439, 6440>>, <<6450, 6450>>, <<6457, 6459>>, <<6679, 6680>>,
    <<6683, 6683>>, <<6742, 6742>>, <<6744, 6750>>, <<6752, 6752>>,
    <<6754, 6754>>, <<6757, 6764>>, <<6771, 6780>>, <<6783, 6783>>,
    <<6823, 6823>>, <<6832, 6862>>, <<6912, 6915>>, <<6964, 6964>>,
    <<6966, 6970>>, <<6972, 6972>>, <<6978, 6978>>, <<7019, 7027>>,
    <<7040, 7041>>, <<7074, 7077>>, <<7080, 7081>>, <<7083, 7085>>,
    <<7142, 7142>>, <<7144, 7145>>, <<7149, 7149>>, <<7151, 7153>>,
    <<7212, 7219>>, <<7222, 7223>>, <<7288, 7293>>, <<7376, 7378>>,
    <<7380, 7392>>, <<7394, 7400>>, <<7405, 7405>>, <<7412, 7412>>,
    <<7416, 7417>>, <<7468, 7530>>, <<7544, 7544>>, <<7579, 7679>>,
    <<8125, 8125>>, <<8127, 8129>>, <<8141, 8143>>, <<8157, 8159>>,
    <<8173, 8175>>, <<8189, 8190>>, <<8203, 8207>>, <<8216, 8217>>,
    <<8228, 8228>>, <<8231, 8231>>, <<8234, 8238>>, <<8288, 8292>>,
    <<8294, 8303>>, <<8305, 8305>>, <<8319, 8319>>, <<8336, 8348>>,
    <<8400, 8432>>, <<11388, 11389>>, <<11503, 11505>>, <<11631, 11631>>,
    <<11647, 11647>>, <<11744, 11775>>, <<11823, 11823>>, <<12293, 12293>>,
    <<12330, 12333>>, <<12337, 12341>>, <<12347, 12347>>, <<12441, 12446>>,
    <<12540, 12542>>, <<40981, 40981>>, <<42232, 42237>>, <<42508, 42508>>,
    <<42607, 42610>>, <<42612, 42621>>, <<42623, 42623>>, <<42652, 42655>>,
    <<42736, 42737>>, <<42752, 42785>>, <<42864, 42864>>, <<42888, 42890>>,
    <<42994, 42996>>, <<43000, 43001>>, <<43010, 43010>>, <<43014, 43014>>,
    <<43019, 43019>>, <<43045, 43046>>, <<43052, 43052>>, <<43204, 43205>>,
    <<43232, 43249>>, <<43263, 43263>>, <<43302, 43309>>, <<43335, 43345>>,
    <<43392, 43394>>, <<43443, 43443>>, <<43446, 43449>>, <<43452, 43453>>,
    <<43471, 43471>>, <<43493, 43494>>, <<43561, 43566>>, <<43569, 43570>>,
    <<43573, 43574>>, <<43587, 43587>>, <<43596, 43596>>, <<43632, 43632>>,
    <<43644, 43644>>, <<43696, 43696>>, <<43698, 43700>>, <<43703, 43704>>,
    <<43710, 43711>>, <<43713, 43713>>, <<43741, 43741>>, <<43756, 43757>>,
    <<43763, 43764>>, <<43766, 43766>>, <<43867, 43871>>, <<43881, 43883>>,
    <<44005, 44005>>, <<44008, 44008>>, <<44013, 44013>>, <<64286, 64286>>,
    <<64434, 64450>>, <<65024, 65039>>, <<65043, 65043>>, <<65056, 65071>>,
    <<65106, 65106>>, <<65109, 65109>>, <<65279, 65279>>, <<65287, 65287>>,
    <<65294, 65294>>, <<65306, 65306>>, <<65342, 65342>>, <<65344, 65344>>,
    <<65392, 65392>>, <<65438, 65439>>, <<65507, 65507>>, <<65529, 65531>>,
    <<66045, 66045>>, <<66272, 66272>>, <<66422, 66426>>, <<67456, 67461>>,
    <<67463, 67504>>, <<67506, 67514>>, <<68097, 68099>>, <<68101, 68102>>,
    <<68108, 68111>>, <<68152, 68154>>, <<68159, 68159>>, <<68325, 68326>>,
    <<68900, 68903>>, <<69291, 69292>>, <<69446, 69456>>, <<69506, 69509>>,
    <<69633, 69633>>, <<69688, 69702>>, <<69744, 69744>>, <<69747, 69748>>,
    <<69759, 69761>>, <<69811, 69814>>, <<69817, 69818>>, <<69821, 69821>>,
    <<69826, 69826>>, <<69837, 69837>>, <<69888, 69890>>, <<69927, 69931>>,
    <<69933, 69940>>, <<70003, 70003>>, <<70016, 70017>>, <<70070, 70078>>,
    <<70089, 70092>>, <<70095, 70095>>, <<70191, 70193>>, <<70196, 70196>>,
    <<70198, 70199>>, <<70206, 70206>>, <<70367, 70367>>, <<70371, 70378>>,
    <<70400, 70401>>, <<70459, 70460>>, <<70464, 70464>>, <<70502, 70508>>,
    <<70512, 70516>>, <<70712, 70719>>, <<70722, 70724>>, <<70726, 70726>>,
    <<70750, 70750>>, <<70835, 70840>>, <<70842, 70842>>, <<70847, 70848>>,
    <<70850, 70851>>, <<71090, 71093>>, <<71100, 71101>>, <<71103, 71104>>,
    <<71132, 71133>>, <<71219, 71226>>, <<71229, 71229>>, <<71231, 71232>>,
    <<71339, 71339>>, <<71341, 71341>>, <<71344, 71349>>, <<71351, 71351>>,
    <<71453, 71455>>, <<71458, 71461>>, <<71463, 71467>>, <<71727, 71735>>,
    <<71737, 71738>>, <<71995, 71996>>, <<71998, 71998>>, <<72003, 72003>>,
    <<72148, 72151>>, <<72154, 72155>>, <<72160, 72160>>, <<72193, 72202>>,
    <<72243, 72248>>, <<72251, 72254>>, <<72263, 72263>>, <<72273, 72278>>,
    <<72281, 72283>>, <<72330, 72342>>, <<72344, 72345>>, <<72752, 72758>>,
    <<72760, 72765>>, <<72767, 72767>>, <<72850, 72871>>, <<72874, 72880>>,
    <<72882, 72883>>, <<72885, 72886>>, <<73009, 73014>>, <<73018, 73018>>,
    <<73020, 73021>>, <<73023, 73029>>, <<73031, 73031>>, <<73104, 73105>>,
    <<73109, 73109>>, <<73111, 73111>>, <<73459, 73460>>, <<78896, 78904>>,
    <<92912, 92916>>, <<92976, 92982>>, <<92992, 92995>>, <<94031, 94031>>,
    <<94095, 94111>>, <<94176, 94177>>, <<94179, 94180>>, <<110576, 110579>>,
    <<110581, 110587>>, <<110589, 110590>>, <<113821, 113822>>,
    <<113824, 113827>>, <<118528, 118573>>, <<118576, 118598>>,
    <<119143, 119145>>, <<119155, 119170>>, <<119173, 119179>>,
    <<119210, 119213>>, <<119362, 119364>>, <<121344, 121398>>,
    <<121403, 121452>>, <<121461, 121461>>, <<121476, 121476>>,
    <<121499, 121503>>, <<121505, 121519>>, <<122880, 122886>>,
    <<122888, 122904>>, <<122907, 122913>>, <<122915, 122916>>,
    <<122918, 122922>>, <<123184, 123197>>, <<123566, 123566>>,
    <<123628, 123631>>, <<125136, 125142>>, <<125252, 125259>>,
    <<127995, 127999>>, <<917505, 917505>>, <<917536, 917631>>,
    <<917760, 917999>> >>

\* The code points with the Unicode property Cased, as runs <<first, last>>.
CasedRuns == <<
    <<65, 90>>, <<97, 122>>, <<170, 170>>, <<181, 181>>, <<186, 186>>,
    <<192, 214>>, <<216, 246>>, <<248, 442>>, <<444, 447>>, <<452, 659>>,
    <<661, 696>>, <<704, 705>>, <<736, 740>>, <<837, 837>>, <<880, 883>>,
    <<886, 887>>, <<890, 893>>, <<895, 895>>, <<902, 902>>, <<904, 906>>,
    <<908, 908>>, <<910, 929>>, <<931, 1013>>, <<1015, 1153>>,
    <<1162, 1327>>, <<1329, 1366>>, <<1376, 1416>>, <<4256, 4293>>,
    <<4295, 4295>>, <<4301, 4301>>, <<4304, 4346>>, <<4349, 4351>>,
    <<5024, 5109>>, <<5112, 5117>>, <<7296, 7304>>, <<7312, 7354>>,
    <<7357, 7359>>, <<7424, 7615>>, <<7680, 7957>>, <<7960, 7965>>,
    <<7968, 8005>>, <<8008, 8013>>, <<8016, 8023>>, <<8025, 8025>>,
    <<8027, 8027>>, <<8029, 8029>>, <<8031, 8061>>, <<8064, 8116>>,
    <<8118, 8124>>, <<8126, 8126>>, <<8130, 8132>>, <<8134, 8140>>,
    <<8144, 8147>>, <<8150, 8155>>, <<8160, 8172>>, <<8178, 8180>>,
    <<8182, 8188>>, <<8305, 8305>>, <<8319, 8319>>, <<8336, 8348>>,
    <<8450, 8450>>, <<8455, 8455>>, <<8458, 8467>>, <<8469, 8469>>,
    <<8473, 8477>>, <<8484, 8484>>, <<8486, 8486>>, <<8488, 8488>>,
    <<8490, 8493>>, <<8495, 8500>>, <<8505, 8505>>, <<8508, 8511>>,
    <<8517, 8521>>, <<8526, 8526>>, <<8544, 8575>>, <<8579, 8580>>,
    <<9398, 9449>>, <<11264, 11492>>, <<11499, 11502>>, <<11506, 11507>>,
    <<11520, 11557>>, <<11559, 11559>>, <<11565, 11565>>, <<42560, 42605>>,
    <<42624, 42653>>, <<42786, 42887>>, <<42891, 42894>>, <<42896, 42954>>,
    <<42960, 42961>>, <<42963, 42963>>, <<42965, 42969>>, <<42997, 42998>>,
    <<43000, 43002>>, <<43824, 43866>>, <<43868, 43880>>, <<43888, 43967>>,
    <<64256, 64262>>, <<64275, 64279>>, <<65313, 65338>>, <<65345, 65370>>,
    <<66560, 66639>>, <<66736, 66771>>, <<66776, 66811>>, <<66928, 66938>>,
    <<66940, 66954>>, <<66956, 66962>>, <<66964, 66965>>, <<66967, 66977>>,
    <<66979, 66993>>, <<66995, 67001>>, <<67003, 67004>>, <<67456, 67456>>,
    <<67459, 67461>>, <<67463, 67504>>, <<67506, 67514>>, <<68736, 68786>>,
    <<68800, 68850>>, <<71840, 71903>>, <<93760, 93823>>, <<119808, 119892>>,
    <<119894, 119964>>, <<119966, 119967>>, <<119970, 119970>>,
    <<119973, 119974>>, <<119977, 119980>>, <<119982, 119993>>,
    <<119995, 119995>>, <<119997, 120003>>, <<120005, 120069>>,
    <<120071, 120074>>, <<120077, 120084>>, <<120086, 120092>>,
    <<120094, 120121>>, <<120123, 120126>>, <<120128, 120132>>,
    <<120134, 120134>>, <<120138, 120144>>, <<120146, 120485>>,
    <<120488, 120512>>, <<120514, 120538>>, <<120540, 120570>>,
    <<120572, 120596>>, <<120598, 120628>>, <<120630, 120654>>,
    <<120656, 120686>>, <<120688, 120712>>, <<120714, 120744>>,
    <<120746, 120770>>, <<120772, 120779>>, <<122624, 122633>>,
    <<122635, 122654>>, <<125184, 125251>>, <<127280, 127305>>,
    <<127312, 127337>>, <<127344, 127369>> >>

\* c.lower() for a text c of one code point; U+0130 is the one code point
\* whose lower-case form has two.
LowerChar(c) ==
    LET Moved(n, d) == IF d = 0 THEN <<c>> ELSE <<CharOf(n + d)>>
        Delta(runs, hits) == IF hits = {} THEN 0 ELSE runs[CHOOSE r \in hits : TRUE][4]
        Run(n, runs) ==
            Delta(runs, {r \in 1..Len(runs) :
                            /\ runs[r][1] =< n
                            /\ n =< runs[r][2]
                            /\ (n - runs[r][1]) % runs[r][3] = 0})
        Of(n) ==
            IF n = 304 THEN <<"i", "U+0307">>
            ELSE Moved(n, IF n >= 65 /\ n =< 90 THEN 32
                          ELSE IF n < 128 THEN 0
                          ELSE Run(n, LowerRuns))
    IN  IF Len(c) > 1 \/ c \in {"A", "B", "C", "D", "E", "F", "G", "H", "I", "J", "K",
                                 "L", "M", "N", "O", "P", "Q", "R", "S", "T", "U", "V",
                                 "W", "X", "Y", "Z"}
        THEN Of(CodePoint(c))
        ELSE <<c>>

\* str.lower().  A capital sigma (U+03A3) becomes the final sigma U+03C2
\* when a cased code point precedes it and none follows it, code points
\* that are Case_Ignorable being skipped on both sides; the small sigma
\* otherwise.
Lower(s) ==
    LET In(runs, n) == \E r \in 1..Len(runs) : runs[r][1] =< n /\ n =< runs[r][2]
        \* the capital sigma at i is a final one: kept are the positions that
        \* are not skipped, cased those of them with a cased code point
        Final(i, before, after, cased) ==
            /\ before # {}
            /\ (CHOOSE j \in before : \A k \in before : k =< j) \in cased
            /\ ~(/\ after # {}
                 /\ (CHOOSE j \in after : \A k \in after : j =< k) \in cased)
        Finals(sigmas, kept, cased) ==
            {i \in sigmas :
                Final(i, {j \in kept : j < i}, {j \in kept : j > i}, cased)}
        Cased(sigmas, codes, kept) ==
            Finals(sigmas, kept, {j \in kept : In(CasedRuns, codes[j])})
        Kept(sigmas, codes) ==
            Cased(sigmas, codes,
                  {j \in 1..Len(s) : ~In(CaseIgnorableRuns, codes[j])})
        Sigmas(sigmas) ==
            IF sigmas = {} THEN {}
            ELSE Kept(sigmas, [j \in 1..Len(s) |-> CodePoint(s[j])])
        RECURSIVE Cat(_, _)
        Cat(p, i) == IF i > Len(p) THEN <<>> ELSE p[i] \o Cat(p, i + 1)
        Flat(p) ==
            IF \A i \in 1..Len(p) : Len(p[i]) = 1 THEN [i \in 1..Len(p) |-> p[i][1]]
            ELSE Cat(p, 1)
        Pieces(finals) ==
            Flat([i \in 1..Len(s) |->
                    IF s[i] = "U+03A3"
                    THEN IF i \in finals THEN <<"U+03C2">> ELSE <<"U+03C3">>
                    ELSE LowerChar(s[i])])
    IN  Pieces(Sigmas({i \in 1..Len(s) : s[i] = "U+03A3"}))

Digits == {"0", "1", "2", "3", "4", "5", "6", "7", "8", "9"}
HexLetters == {"a", "b", "c", "d", "e", "f", "A", "B", "C", "D", "E", "F"}

\* str.strip() with no argument removes these at both ends: the code
\* points for which str.isspace() is true.
WhitespaceChars ==
    {"\t", "\n", "U+000B", "\f", "\r", "U+001C", "U+001D", "U+001E",
     "U+001F", " ", "U+0085", "U+00A0", "U+1680", "U+2000", "U+2001",
     "U+2002", "U+2003", "U+2004", "U+2005", "U+2006", "U+2007", "U+2008",
     "U+2009", "U+200A", "U+2028", "U+2029", "U+202F", "U+205F", "U+3000"}

\* A character of the text matches the lower-case ASCII character a of a
\* regular expression compiled with re.IGNORECASE: besides the two cases of
\* a, "i" matches U+0130 and U+0131, "k" U+212A, "s" U+017F.
IgnoreCaseEq(c, a) ==
    \/ c = a
    \/ \E k \in 1..26 : /\ SubSeq("abcdefghijklmnopqrstuvwxyz", k, k) = a
                        /\ SubSeq("ABCDEFGHIJKLMNOPQRSTUVWXYZ", k, k) = c
    \/ a = "i" /\ c \in {"U+0130", "U+0131"}
    \/ a = "k" /\ c = "U+212A"
    \/ a = "s" /\ c = "U+017F"

\* urllib.parse._UNSAFE_URL_BYTES_TO_REMOVE
UnsafeUrlChars == {"\t", "\r", "\n"}

\* urllib.parse.scheme_chars
SchemeChars == Letters \cup Digits \cup {"+", "-", "."}

\* s[i:] with a 1-based first index.
From(s, i) == SubSeq(s, i, Len(s))

\* s.startswith(p)
StartsWith(s, p) == Len(p) =< Len(s) /\ SubSeq(s, 1, Len(p)) = p

\* s.endswith(p)
EndsWith(s, p) == Len(p) =< Len(s) /\ SubSeq(s, Len(s) - Len(p) + 1, Len(s)) = p

\* s.find(p, start): least 1-based index >= start where p occurs, 0 if none.
FindFrom(s, p, start) ==
    LET hits == {i \in start..(Len(s) - Len(p) + 1) : SubSeq(s, i, i + Len(p) - 1) = p}
    IN  IF hits = {} THEN 0 ELSE CHOOSE i \in hits : \A j \in hits : i =< j

Find(s, p) == FindFrom(s, p, 1)

\* s.rfind(p): greatest 1-based index where p occurs, 0 if none.
RFind(s, p) ==
    LET hits == {i \in 1..(Len(s) - Len(p) + 1) : SubSeq(s, i, i + Len(p) - 1) = p}
    IN  IF hits = {} THEN 0 ELSE CHOOSE i \in hits : \A j \in hits : j =< i

\* p in s
Contains(s, p) == Find(s, p) # 0

\* s.count(c) for a single character c.
CountChar(s, c) == Cardinality({i \in 1..Len(s) : s[i] = c})

\* s.partition(p): <<head, separator found, tail>>
Partition(s, p) ==
    LET At(i) == IF i = 0 THEN <<s, FALSE, <<>>>>
                 ELSE <<SubSeq(s, 1, i - 1), TRUE, From(s, i + Len(p))>>
    IN  At(Find(s, p))

\* s.rpartition(p): <<head, separator found, tail>>
RPartition(s, p) ==
    LET At(i) == IF i = 0 THEN <<<<>>, FALSE, s>>
                 ELSE <<SubSeq(s, 1, i - 1), TRUE, From(s, i + Len(p))>>
    IN  At(RFind(s, p))

\* s.split(c) for a single character c: the list of pieces.
RECURSIVE Split(_, _)
Split(s, c) ==
    LET At(i) == IF i = 0 THEN <<s>>
                 ELSE <<SubSeq(s, 1, i - 1)>> \o Split(From(s, i + 1), c)
    IN  At(Find(s, <<c>>))

\* c.join(parts)
RECURSIVE Join(_, _)
Join(parts, c) ==
    IF parts = <<>> THEN <<>>
    ELSE IF Len(parts) = 1 THEN parts[1]
    ELSE parts[1] \o <<c>> \o Join(Tail(parts), c)

\* s.lstrip(set), s.rstrip(set), s.strip()
LStrip(s, set) ==
    LET keep == {i \in 1..Len(s) : s[i] \notin set}
    IN  IF keep = {} THEN <<>>
        ELSE From(s, CHOOSE i \in keep : \A j \in keep : i =< j)

RStrip(s, set) ==
    LET keep == {i \in 1..Len(s) : s[i] \notin set}
    IN  IF keep = {} THEN <<>>
        ELSE SubSeq(s, 1, CHOOSE i \in keep : \A j \in keep : j =< i)

Strip(s) == RStrip(LStrip(s, WhitespaceChars), WhitespaceChars)

\* s.replace(c, "") for every c of a set.
RemoveChars(s, set) == SelectSeq(s, LAMBDA c : c \notin set)

\* The decimal value of a string of digits.
DigitValue(c) == CHOOSE n \in 0..9 : <<"0", "1", "2", "3", "4", "5", "6", "7", "8", "9">>[n + 1] = c

RECURSIVE DecimalValue(_)
DecimalValue(s) ==
    IF s = <<>> THEN 0
    ELSE 10 * DecimalValue(SubSeq(s, 1, Len(s) - 1)) + DigitValue(s[Len(s)])

(***************************************************************************)
(* Address literals: socket.inet_aton / socket.inet_pton, as is_ip uses    *)
(* them, and the bracketed-host check of urllib.parse.                     *)
(***************************************************************************)

AllIn(s, set) == \A i \in 1..Len(s) : s[i] \in set

\* The base of a numeral of inet_aton (strtoul with base 0): 16 after
\* "0x" or "0X", 8 after another leading zero, 10 otherwise.
AtonBase(p) ==
    IF Len(p) > 1 /\ p[1] = "0" /\ p[2] \in {"x", "X"} THEN 16
    ELSE IF Len(p) > 1 /\ p[1] = "0" THEN 8
    ELSE 10

\* One numeral of inet_aton is well formed: it starts with a digit and
\* all of it is digits of its base, at least one after "0x".
AtonPartOk(p) ==
    /\ p # <<>>
    /\ CASE AtonBase(p) = 16 -> Len(p) > 2 /\ AllIn(From(p, 3), Digits \cup HexLetters)
         [] AtonBase(p) = 8 -> AllIn(p, {"0", "1", "2", "3", "4", "5", "6", "7"})
         [] OTHER -> AllIn(p, Digits)

\* The value of a numeral as <<high 16 bits, low 16 bits>>, the high part
\* saturating at 65536 (a value that no longer fits 32 bits).
RECURSIVE AtonPartValue(_, _)
AtonPartValue(p, base) ==
    IF p = <<>> THEN <<0, 0>>
    ELSE IF base = 16 /\ Len(p) > 1 /\ p[2] \in {"x", "X"}
    THEN AtonPartValue(From(p, 3), base)
    ELSE LET Digit(c) ==
                 (CHOOSE k \in 1..16 : c \in {SubSeq("0123456789abcdef", k, k),
                                              SubSeq("0123456789ABCDEF", k, k)}) - 1
             prev == AtonPartValue(SubSeq(p, 1, Len(p) - 1), base)
             lo == prev[2] * base + Digit(p[Len(p)])
             hi == prev[1] * base + (lo \div 65536)
         IN  <<IF hi > 65536 THEN 65536 ELSE hi, lo % 65536>>

\* numeral p =< hiMax * 65536 + 65535
AtonPartFits(p, hiMax) == AtonPartValue(p, AtonBase(p))[1] =< hiMax

\* numeral p =< 255
AtonPartIsByte(p) ==
    LET IsByte(v) == v[1] = 0 /\ v[2] =< 255 IN IsByte(AtonPartValue(p, AtonBase(p)))

\* socket.inet_aton(host) succeeds (glibc): one to four numerals, the last
\* one filling the remaining bytes (a.b.c.d, a.b.c16, a.b24, a32); the
\* address ends at the first ASCII white space, and what follows is not
\* read.
inet_aton_ok(host) ==
    LET Numerals(parts, n) ==
            /\ n =< 4
            /\ \A i \in 1..n : AtonPartOk(parts[i])
            /\ \A i \in 1..(n - 1) : AtonPartIsByte(parts[i])
            /\ CASE n = 4 -> AtonPartIsByte(parts[n])
                 [] n = 3 -> AtonPartFits(parts[n], 0)
                 [] n = 2 -> AtonPartFits(parts[n], 255)
                 [] OTHER -> AtonPartFits(parts[n], 65535)
        Address(parts) == Numerals(parts, Len(parts))
        UpTo(spaces) ==
            IF spaces = {} THEN host
            ELSE SubSeq(host, 1, (CHOOSE i \in spaces : \A j \in spaces : i =< j) - 1)
        Text(addr) == Address(Split(addr, "."))
    IN  Text(UpTo({i \in 1..Len(host) :
                      host[i] \in {" ", "\t", "\n", "U+000B", "\f", "\r"}}))

\* A strict dotted quad, each byte 0..255 without leading zeros.
IsDottedQuad(s) ==
    LET Quad(parts) ==
            /\ Len(parts) = 4
            /\ \A i \in 1..4 :
                  /\ parts[i] # <<>>
                  /\ Len(parts[i]) =< 3
                  /\ AllIn(parts[i], Digits)
                  /\ (Len(parts[i]) > 1 => parts[i][1] # "0")
                  /\ DecimalValue(parts[i]) =< 255
    IN  Quad(Split(s, "."))

IsHextet(p) == p # <<>> /\ Len(p) =< 4 /\ AllIn(p, Digits \cup HexLetters)

\* An IPv6 literal in text form (ipaddress.IPv6Address / inet_pton AF_INET6):
\* at least two colons, at most one "::", hextets of 1..4 hex digits, an
\* optional dotted quad in the last position, no scope id.
IsIPv6(s) ==
    LET \* the hextets on both sides of the "::" at position k
        Compressed(parts, n, k) ==
            LET hi == IF parts[1] = <<>> THEN k - 2 ELSE k - 1
                lo == IF parts[n] = <<>> THEN n - k - 1 ELSE n - k
            IN  /\ (parts[1] = <<>> => k = 2)
                /\ (parts[n] = <<>> => k = n - 1)
                /\ 8 - (hi + lo) >= 1
                /\ \A i \in 1..n : parts[i] # <<>> => IsHextet(parts[i])
        Hextets(parts, n, skips) ==
            /\ n =< 9
            /\ Cardinality(skips) =< 1
            /\ IF skips # {}
               THEN Compressed(parts, n, CHOOSE i \in skips : TRUE)
               ELSE /\ n = 8
                    /\ \A i \in 1..n : IsHextet(parts[i])
        Parts(parts) ==
            Hextets(parts, Len(parts), {i \in 2..(Len(parts) - 1) : parts[i] = <<>>})
        Raw(raw, lastp) ==
            /\ Len(raw) >= 3
            /\ IF Contains(lastp, <<".">>)
               THEN /\ IsDottedQuad(lastp)
                    /\ Parts(SubSeq(raw, 1, Len(raw) - 1) \o <<<<"0">>, <<"0">>>>)
               ELSE Parts(raw)
    IN  Raw(Split(s, ":"), Split(s, ":")[Len(Split(s, ":"))])

\* is_ip(host), src/phishing_detector.py, for a host that the two socket
\* functions take as their argument (see LexicalRaises for the others).
is_ip(host) == inet_aton_ok(host) \/ IsIPv6(host)

(***************************************************************************)
(* urllib.parse: urlsplit, urlparse, geturl, hostname.                     *)
(***************************************************************************)

\* Index of the first of "/", "?", "#" at or after start; Len+1 if none.
NetlocEnd(url, start) ==
    LET hits == {i \in start..Len(url) : url[i] \in {"/", "?", "#"}}
    IN  IF hits = {} THEN Len(url) + 1 ELSE CHOOSE i \in hits : \A j \in hits : i =< j

\* urllib.parse._check_bracketed_host: a host that starts with "v" matches
\* v[a-fA-F0-9]+\..+ (IPvFuture); any other is an IPv6 address for
\* ipaddress.ip_address, with or without a scope id after "%", which is
\* not empty and has no "%".
BracketedHostOk(h) ==
    LET Future(dot) ==
            /\ dot > 2
            /\ dot < Len(h)
            /\ AllIn(SubSeq(h, 2, dot - 1), Digits \cup HexLetters)
        Scoped(hz) ==
            /\ IsIPv6(hz[1])
            /\ hz[2] => (hz[3] # <<>> /\ ~Contains(hz[3], <<"%">>))
    IN  IF StartsWith(h, <<"v">>) THEN Future(Find(h, <<".">>))
        ELSE Scoped(Partition(h, <<"%">>))

\* urllib.parse._splitparams on the path of a URL.
splitparams(path) ==
    LET At(i) == IF i = 0 THEN <<path, <<>>>>
                 ELSE <<SubSeq(path, 1, i - 1), From(path, i + 1)>>
        After(slash) == At(IF slash # 0 THEN FindFrom(path, <<";">>, slash)
                           ELSE Find(path, <<";">>))
    IN  After(RFind(path, <<"/">>))

\* urlparse(url): [ok |-> FALSE] stands for the ValueError it raises.  The
\* steps are those of urlsplit, in its order, then _splitparams.
urlparse(url) ==
    LET \* ParseResult, the path divided by _splitparams for a scheme of
        \* uses_params
        Result(scheme, netloc, pp, query, fragment) ==
            [ok |-> TRUE, scheme |-> scheme, netloc |-> netloc, path |-> pp[1],
             params |-> pp[2], query |-> query, fragment |-> fragment]
        SplitParams(scheme, netloc, path, query, fragment) ==
            Result(scheme, netloc,
                   IF /\ scheme \in {Chars(sch) : sch \in
                             {"", "ftp", "hdl", "prospero", "http", "imap", "https",
                              "shttp", "rtsp", "rtsps", "rtspu", "sip", "sips", "mms",
                              "sftp", "tel"}}
                      /\ Contains(path, <<";">>)
                   THEN splitparams(path) ELSE <<path, <<>>>>,
                   query, fragment)
        \* url.split('?', 1)
        SplitQuery(scheme, netloc, qp, fragment) ==
            SplitParams(scheme, netloc, qp[1], qp[3], fragment)
        \* url.split('#', 1), and _checknetloc(netloc): no code point of the
        \* netloc has a compatibility form (NFKC) with one of / ? # @ :
        SplitFragment(scheme, netloc, hashp) ==
            IF \E i \in 1..Len(netloc) :
                  netloc[i] \in {"U+2047", "U+2048", "U+2049", "U+2100", "U+2101",
                                 "U+2105", "U+2106", "U+2A74", "U+FE13", "U+FE16",
                                 "U+FE55", "U+FE56", "U+FE5F", "U+FE6B", "U+FF03",
                                 "U+FF0F", "U+FF1A", "U+FF1F", "U+FF20"}
            THEN [ok |-> FALSE]
            ELSE SplitQuery(scheme, netloc, Partition(hashp[1], <<"?">>), hashp[3])
        \* the two checks on the brackets of the netloc
        CheckBrackets(scheme, netloc, rest, open, close) ==
            IF open # close
               \/ (open /\ close
                   /\ ~BracketedHostOk(Partition(Partition(netloc, <<"[">>)[3], <<"]">>)[1]))
            THEN [ok |-> FALSE]
            ELSE SplitFragment(scheme, netloc, Partition(rest, <<"#">>))
        CheckNetloc(scheme, netloc, rest) ==
            CheckBrackets(scheme, netloc, rest,
                          Contains(netloc, <<"[">>), Contains(netloc, <<"]">>))
        \* _splitnetloc(url, 2) when url[:2] == '//'
        SplitNetloc(scheme, rest, hasNetloc, delim) ==
            CheckNetloc(scheme,
                        IF hasNetloc THEN SubSeq(rest, 3, delim - 1) ELSE <<>>,
                        IF hasNetloc THEN From(rest, delim) ELSE rest)
        Rest(scheme, rest) ==
            SplitNetloc(scheme, rest, StartsWith(rest, <<"/", "/">>), NetlocEnd(rest, 3))
        \* url[:i].lower(), url[i+1:] when url[:i] is a scheme
        SplitScheme(u2, colon, hasScheme) ==
            Rest(IF hasScheme THEN Lower(SubSeq(u2, 1, colon - 1)) ELSE <<>>,
                        IF hasScheme THEN From(u2, colon + 1) ELSE u2)
        FindScheme(u2, colon) ==
            SplitScheme(u2, colon,
                        colon > 1 /\ u2[1] \in Letters
                        /\ AllIn(SubSeq(u2, 1, colon - 1), SchemeChars))
        Cleaned(u2) == FindScheme(u2, Find(u2, <<":">>))
        \* url.lstrip(_WHATWG_C0_CONTROL_OR_SPACE), then the removal of the
        \* _UNSAFE_URL_BYTES_TO_REMOVE
    IN  Cleaned(RemoveChars(LStrip(url,
                             {"U+0000", "U+0001", "U+0002", "U+0003", "U+0004",
                              "U+0005", "U+0006", "U+0007", "U+0008", "\t",
                              "\n", "U+000B", "\f", "\r", "U+000E", "U+000F",
                              "U+0010", "U+0011", "U+0012", "U+0013", "U+0014",
                              "U+0015", "U+0016", "U+0017", "U+0018", "U+0019",
                              "U+001A", "U+001B", "U+001C", "U+001D", "U+001E",
                              "U+001F", " "}),
                            UnsafeUrlChars))

\* ParseResult.geturl(): urlunparse, then urlunsplit.
geturl(p) ==
    LET WithFragment(url) ==
            IF p.fragment # <<>> THEN url \o <<"#">> \o p.fragment ELSE url
        WithQuery(url) ==
            WithFragment(IF p.query # <<>> THEN url \o <<"?">> \o p.query ELSE url)
        WithSchemeOf(url) ==
            WithQuery(IF p.scheme # <<>> THEN p.scheme \o <<":">> \o url ELSE url)
        WithNetloc(url) ==
            WithSchemeOf(
                IF p.netloc # <<>> \/ (p.scheme # <<>> /\ ~StartsWith(url, <<"/", "/">>))
                THEN <<"/", "/">> \o p.netloc
                     \o (IF url # <<>> /\ url[1] # "/" THEN <<"/">> ELSE <<>>) \o url
                ELSE url)
    IN  WithNetloc(IF p.params # <<>> THEN p.path \o <<";">> \o p.params ELSE p.path)

\* ParseResult.hostname; the empty sequence stands for None, which analyze
\* turns into "" (parsed.hostname or "").
hostname(p) ==
    LET \* the zone of a scoped address, after "%", is not lower-cased
        Zoned(hz) == Lower(hz[1]) \o (IF hz[2] THEN <<"%">> \o hz[3] ELSE <<>>)
        Host(hostinfo, br) ==
            Zoned(Partition(IF br[2] THEN Partition(br[3], <<"]">>)[1]
                            ELSE Partition(hostinfo, <<":">>)[1],
                            <<"%">>))
        HostInfo(hostinfo) == Host(hostinfo, Partition(hostinfo, <<"[">>))
    IN  HostInfo(RPartition(p.netloc, <<"@">>)[3])

\* re.match(r"^https?://", url, re.IGNORECASE)
HasHttpPrefix(url) ==
    LET Matches(pat) ==
            /\ Len(pat) =< Len(url)
            /\ \A i \in 1..Len(pat) : IgnoreCaseEq(url[i], pat[i])
    IN  Matches(Chars("http://")) \/ Matches(Chars("https://"))

\* normalize_url(url): [ok |-> FALSE] stands for the ValueError that
\* urlparse raises and normalize_url does not catch.
normalize_url(url) ==
    LET Unparse(p) ==
            IF p.ok
            THEN [ok |-> TRUE, value |-> geturl([p EXCEPT !.fragment = <<>>])]
            ELSE [ok |-> FALSE, value |-> <<>>]
        WithScheme(stripped) ==
            Unparse(urlparse(IF HasHttpPrefix(stripped) THEN stripped
                             ELSE Chars("http://") \o stripped))
    IN  WithScheme(Strip(url))

(***************************************************************************)
(* Constants of src/phishing_detector.py.                                  *)
(***************************************************************************)

SUSPICIOUS_TLDS == {Chars(t) : t \in {
    "zip", "kim", "top", "work", "country", "stream", "biz", "men", "loan", "mom",
    "gq", "cf", "tk", "ml", "ga", "surf", "fit", "ltda", "cam", "bar", "click",
    "link", "xyz", "rest", "review", "date", "online", "app", "pics", "quest",
    "ryuk", "accountant", "bid", "cc", "club", "cricket", "download", "faith",
    "ltd", "party", "press", "pw", "science", "win"}}

LEGITIMATE_TLDS == {Chars(t) : t \in {
    "com", "org", "net", "edu", "gov", "mil", "io", "ai", "co", "uk", "us", "ca",
    "au", "nz", "de", "fr", "es", "it", "nl", "se", "no", "dk", "fi",
    "ie", "at", "ch", "be", "lu", "pt", "gr", "hu", "pl", "cz", "sk", "si", "hr",
    "ba", "rs", "me", "al", "mk", "mt", "cy", "li", "is", "ee", "lv", "lt"}}

TRUSTED_DOMAINS == {Chars(d) : d \in {
    "google.com", "facebook.com", "apple.com", "microsoft.com", "amazon.com",
    "netflix.com", "twitter.com", "instagram.com", "linkedin.com", "github.com",
    "oracle.com", "whatsapp.com", "signal.org", "telegram.org", "discord.com",
    "slack.com", "dropbox.com", "box.com", "adobe.com", "salesforce.com",
    "ibm.com", "intel.com", "nvidia.com", "amd.com", "paypal.com", "stripe.com",
    "visa.com", "mastercard.com", "americanexpress.com", "wikipedia.org",
    "mozilla.org", "wordpress.org", "archive.org", "berkeley.edu", "stanford.edu",
    "mit.edu", "harvard.edu", "yale.edu", "princeton.edu", "columbia.edu",
    "upenn.edu", "cornell.edu", "brown.edu", "dartmouth.edu", "ucla.edu",
    "ucsd.edu", "ucb.edu", "umich.edu", "uiuc.edu", "utexas.edu"}}

\* TRUSTED_PATTERNS, one sequence of label patterns per regular expression:
\* "*" is [a-zA-Z0-9-]+, "{2,}" is [a-zA-Z]{2,}, anything else a literal label.
TRUSTED_PATTERNS == <<
    <<"*", "oracle", "com">>, <<"*", "whatsapp", "com">>, <<"*", "google", "com">>,
    <<"*", "microsoft", "com">>, <<"*", "apple", "com">>, <<"*", "amazon", "com">>,
    <<"*", "github", "com">>, <<"*", "edu">>, <<"*", "*", "edu">>,
    <<"*", "edu", "{2,}">>, <<"*", "ac", "{2,}">>, <<"*", "gov">>,
    <<"*", "gov", "{2,}">>, <<"*", "org">>, <<"*", "mil">> >>

SUSPICIOUS_KEYWORDS == <<
    Chars("login-secure"), Chars("verify-account"), Chars("update-details"),
    Chars("secure-account"), Chars("bank-login"), Chars("wallet-access"),
    Chars("pay-now"), Chars("password-reset"), Chars("support-ticket"),
    Chars("helpdesk-verify"), Chars("unlock-account"), Chars("billing-update"),
    Chars("confirm-details"), Chars("re-activate-now"), Chars("gift-card"),
    Chars("free-offer"), Chars("prize-winner"), Chars("bonus-claim") >>

BRAND_HINTS == <<
    Chars("Apple"), Chars("Microsoft"), Chars("Google"), Chars("Facebook"),
    Chars("Instagram"), Chars("Amazon"), Chars("Netflix"), Chars("PayPal"),
    Chars("Adobe"), Chars("LinkedIn"), Chars("Bank") >>

WEIGHTS == [
    ip_in_url |-> 8, punycode |-> 5, unicode_homoglyphs |-> 5,
    too_many_subdomains |-> 2, suspicious_tld |-> 4, url_length |-> 2,
    at_symbol |-> 5, double_slash |-> 2, many_hyphens |-> 2,
    suspicious_keywords |-> 3,
    no_https |-> 0, weak_tls |-> 0, cert_short_validity |-> 0,
    cert_expiring_soon |-> 0,
    dns_missing |-> 6, domain_too_new |-> 4,
    external_favicon |-> 2, external_form_action |-> 8, mailto_exfil |-> 5,
    password_over_http |-> 10, many_external_scripts |-> 3, many_iframes |-> 2,
    obfuscation |-> 4, redirect_js |-> 2, rightclick_block |-> 2,
    brand_title_mismatch |-> 3 ]

\* The literal added for a resolved host of another domain (line 440).
DNS_MISMATCH_PENALTY == 3

(***************************************************************************)
(* The public-suffix-aware splitter (tldextract) behind domain_parts.      *)
(***************************************************************************)

\* The entries of the public suffix list that the inputs of this model
\* meet.  The set is closed under shorter suffixes and has no wildcard rule.
PublicSuffixes == {Chars(t) : t \in {
    "com", "org", "net", "edu", "gov", "mil", "io", "xyz", "top", "tk", "click",
    "uk", "co.uk", "ac.uk", "gov.uk", "au", "com.au", "edu.au"}}

\* tldextract _schemeless_url
schemeless_url(url) ==
    LET At(ds) ==
            IF ds = 1 THEN From(url, 3)
            ELSE IF ds =< 2 \/ url[ds - 1] # ":" \/ ~AllIn(SubSeq(url, 1, ds - 2), SchemeChars)
            THEN url
            ELSE From(url, ds + 2)
    IN  At(Find(url, <<"/", "/">>))

\* tldextract lenient_netloc
lenient_netloc(url) ==
    LET Host(after_userinfo, maybe_ipv6) ==
            IF after_userinfo # <<>> /\ after_userinfo[1] = "[" /\ maybe_ipv6[2]
            THEN maybe_ipv6[1] \o <<"]">>
            ELSE RStrip(Strip(Partition(after_userinfo, <<":">>)[1]), {"."})
        AfterUserinfo(after_userinfo) ==
            Host(after_userinfo, Partition(after_userinfo, <<"]">>))
        Authority(a1) ==
            AfterUserinfo(
                RPartition(Partition(Partition(a1, <<"?">>)[1], <<"#">>)[1], <<"@">>)[3])
    IN  Authority(Partition(schemeless_url(url), <<"/">>)[1])

\* The last k labels joined by dots.
LabelTail(labels, k) == Join(SubSeq(labels, Len(labels) - k + 1, Len(labels)), ".")

\* Number of trailing labels that form the longest public suffix.
SuffixLabels(labels) ==
    LET Longest(ks) == CHOOSE k \in ks : \A m \in ks : m =< k
    IN  Longest({k \in 0..Len(labels) :
                    \A m \in 1..k : Lower(LabelTail(labels, m)) \in PublicSuffixes})

\* tldextract.extract(url): subdomain, domain, suffix.
tld_extract(url) ==
    LET \* _extract_netloc: si is the index of the last label before the suffix
        Extract(netloc, labels, n, si) ==
            IF /\ Len(netloc) >= 4 /\ netloc[1] = "[" /\ netloc[Len(netloc)] = "]"
               /\ IsIPv6(SubSeq(netloc, 2, Len(netloc) - 1))
            THEN [subdomain |-> <<>>, domain |-> netloc, suffix |-> <<>>]
            ELSE IF si = n /\ n = 4 /\ IsDottedQuad(netloc)
            THEN [subdomain |-> <<>>, domain |-> netloc, suffix |-> <<>>]
            ELSE [subdomain |-> IF si >= 2 THEN Join(SubSeq(labels, 1, si - 1), ".") ELSE <<>>,
                  domain |-> IF si >= 1 THEN labels[si] ELSE <<>>,
                  suffix |-> IF si # n THEN Join(SubSeq(labels, si + 1, n), ".") ELSE <<>>]
        Labels(netloc, labels) ==
            Extract(netloc, labels, Len(labels), Len(labels) - SuffixLabels(labels))
        Netloc(netloc) == Labels(netloc, Split(netloc, "."))
    IN  Netloc(lenient_netloc(url))

\* domain_parts(url)[0]: the registrable domain, lower-cased.
domain_parts(url) ==
    LET Registered(ext) ==
            Lower(IF ext.suffix # <<>> THEN ext.domain \o <<".">> \o ext.suffix
                  ELSE ext.domain)
    IN  Registered(tld_extract(url))

(***************************************************************************)
(* The trust allow-list.                                                   *)
(***************************************************************************)

\* One label against one label pattern, under re.IGNORECASE: the class
\* [a-zA-Z] then has the four code points whose case folding is ASCII.
LabelMatches(label, pat) ==
    LET folded == {"U+0130", "U+0131", "U+017F", "U+212A"}
    IN  CASE pat = "*" ->
                 label # <<>> /\ AllIn(label, Letters \cup folded \cup Digits \cup {"-"})
          [] pat = "{2,}" -> Len(label) >= 2 /\ AllIn(label, Letters \cup folded)
          [] OTHER -> /\ Len(label) = Len(pat)
                      /\ \A i \in 1..Len(label) : IgnoreCaseEq(label[i], SubSeq(pat, i, i))

\* re.match(pattern, domain, re.IGNORECASE) for one entry of TRUSTED_PATTERNS;
\* "$" matches at the end and before a newline that ends the text.
PatternMatches(pattern, domain) ==
    LET Match(labels) ==
            /\ Len(labels) = Len(pattern)
            /\ \A i \in 1..Len(labels) : LabelMatches(labels[i], pattern[i])
        Text(d) == Match(Split(d, "."))
    IN  Text(IF domain # <<>> /\ domain[Len(domain)] = "\n"
             THEN SubSeq(domain, 1, Len(domain) - 1) ELSE domain)

is_trusted_domain(domain) ==
    \/ domain \in TRUSTED_DOMAINS
    \/ \E t \in TRUSTED_DOMAINS : EndsWith(domain, <<".">> \o t)
    \/ \E i \in 1..Len(TRUSTED_PATTERNS) : PatternMatches(TRUSTED_PATTERNS[i], domain)
    \/ EndsWith(domain, Chars(".edu")) \/ Contains(domain, Chars(".edu."))
    \/ Contains(domain, Chars(".ac."))
    \/ EndsWith(domain, Chars(".gov")) \/ Contains(domain, Chars(".gov."))
    \/ EndsWith(domain, Chars(".org"))

is_legitimate_tld(tld) == tld \in LEGITIMATE_TLDS

\* contains_unicode_homoglyphs(host): a code point above 127 is written as
\* one element "U+...." of the text.
contains_unicode_homoglyphs(host) ==
    \E i \in 1..Len(host) : Len(host[i]) > 1 /\ CodePoint(host[i]) > 127

(***************************************************************************)
(* Bounds of the model and the inputs drawn from them.                     *)
(***************************************************************************)

MaxForms == 2       \* form elements on a page, all combinations of actions
HeavyForms == 6     \* form elements on the page FullPage
MaxPasswords == 2   \* password inputs on a page
MaxLinks == 2       \* anchor elements on a page
MaxScripts == 2     \* inline script elements on a page
MaxNormLen == 3     \* length of the free part of a normalize_url input

\* All sequences over a set with length at most n.
RECURSIVE SeqsUpTo(_, _)
SeqsUpTo(set, n) ==
    IF n = 0 THEN {<<>>}
    ELSE LET shorter == SeqsUpTo(set, n - 1)
         IN  shorter \cup {Append(q, x) : q \in shorter, x \in set}

\* n copies of a text.
RECURSIVE Repeat(_, _)
Repeat(t, n) == IF n = 0 THEN <<>> ELSE t \o Repeat(t, n - 1)

\* The URL of the end-to-end example of the specification.
PayNowUrl == Chars("http://pay-now.totally-legit-bank.xyz/login-secure")

\* URLs whose registrable domain is on the allow-list.
TrustedUrls == {
    Chars("https://accounts.google.com/signin"),
    Chars("paypal.com"),
    Chars("http://www.example.org/donate"),
    Chars(" HTTP://cs.stanford.edu/~x#top"),
    Chars("https://dept.uni.ac.uk/"),
    Chars("http://") \o <<"U+017F">> \o Chars(".mil/") }

\* URLs on which analyze raises ValueError: in the URL parse inside
\* normalize_url (line 157) for the first two, in the parse of line 354 for
\* the third, in is_ip (line 379) for the fourth.
MalformedUrls == {
    Chars("http://["),
    Chars("[x.google.com"),
    Chars("//["),
    Chars("http://a.com") \o <<"U+0000">> }

\* URLs that go through the whole analysis.
AnalysedUrls == {
    PayNowUrl,
    Chars("https://secure.example-shop.com/account"),
    Chars("http://203.0.113.5/login"),
    Chars("http://0x7f.1/ban") \o <<"U+212A">> \o Chars("-login"),
    Chars("http://user@a.b.c.d.e.f.evil-site.top//x"),
    Chars("http://a.b.c.d.e.evil-site.top/"),
    Chars("xn--pple-43d.com"),
    Chars("http://") \o <<"U+0430">> \o Chars("pple.com/"),
    Chars("http://long.example-shop.com/") \o Repeat(Chars("0123456789"), 16),
    <<>>,
    Chars("HTTPS://Sign-In.My-Bank-Online-Portal.click/gift-card?a=1#frag") }

Urls == TrustedUrls \cup MalformedUrls \cup AnalysedUrls

\* Inputs of normalize_url checked alone: an optional scheme prefix and up
\* to MaxNormLen characters that separate or end the parts of a URL.
NormInputs ==
    LET NormPrefixes == {<<>>, Chars("http://"), Chars("HTTPS://")}
        NormAlphabet == {"a", " ", "#", "?", "/", "["}
    IN  {pre \o body : pre \in NormPrefixes, body \in SeqsUpTo(NormAlphabet, MaxNormLen)}

(***************************************************************************)
(* What the external collectors can answer.                                *)
(***************************************************************************)

\* get_dns_a(host): None (found = FALSE) when gethostbyname_ex raises, else
\* its triple (hostname, aliaslist, ipaddrlist).
DnsNone == [found |-> FALSE, hostname |-> <<>>, aliaslist |-> <<>>, ipaddrlist |-> <<>>]

DnsResults(host) == {
    DnsNone,
    [found |-> TRUE, hostname |-> host, aliaslist |-> <<>>,
     ipaddrlist |-> <<Chars("203.0.113.5")>>],
    [found |-> TRUE, hostname |-> Chars("edge7.cdn-provider.net"), aliaslist |-> <<host>>,
     ipaddrlist |-> <<Chars("198.51.100.7"), Chars("198.51.100.8")>>] }

\* get_tls_cert(host): None (present = FALSE) on any failure, else the peer
\* certificate; parse_cert_dates gives its dates, here as whole days:
\* total_days from notBefore to notAfter, days_left from now to notAfter.
\* dated = FALSE is a certificate whose dates do not parse.
CertNone == [present |-> FALSE, dated |-> FALSE, total_days |-> 0, days_left |-> 0]

CertResults == {
    CertNone,
    [present |-> TRUE, dated |-> FALSE, total_days |-> 0, days_left |-> 0],
    [present |-> TRUE, dated |-> TRUE, total_days |-> 90, days_left |-> 60],
    [present |-> TRUE, dated |-> TRUE, total_days |-> 29, days_left |-> 6] }

\* get_whois(domain): None (found = FALSE) on any failure, else a record
\* whose creation date, when it has one, lies created_ago days in the past
\* (negative: in the future).
WhoisNone == [found |-> FALSE, has_date |-> FALSE, created_ago |-> 0]

WhoisResults == {
    WhoisNone,
    [found |-> TRUE, has_date |-> TRUE, created_ago |-> -3],
    [found |-> TRUE, has_date |-> TRUE, created_ago |-> 29],
    [found |-> TRUE, has_date |-> TRUE, created_ago |-> 30] }

\* src/href values of nine scripts, iframes and links on nine domains.
ManyResources == [i \in 1..9 |-> Chars("https://cdn") \o <<CharOf(96 + i)>> \o Chars(".top/a.js")]

\* The parsed page: has_title/title is soup.title.string, favicon the href
\* of the first link whose rel contains "icon" (empty: none), forms the
\* action attributes, links the href attributes of anchors, passwords the
\* number of password inputs, resources the src/href of scripts, iframes
\* and links, iframes the number of iframe elements, scripts the inline
\* scripts.  One inline script: blank when it has no text, and for each of
\* the three hint lists whether re.search finds one of its patterns in the
\* text.
BlankPage == [has_title |-> FALSE, title |-> <<>>, favicon |-> <<>>, forms |-> <<>>,
              links |-> <<>>, passwords |-> 0, resources |-> <<>>, iframes |-> 0,
              scripts |-> <<>>]

FullPage == [has_title |-> TRUE, title |-> Chars("PayPal"),
             favicon |-> Chars("https://static.evil.tk/f.ico"),
             forms |-> [i \in 1..HeavyForms |-> Chars("https://evil.tk/collect")],
             links |-> [i \in 1..MaxLinks |-> Chars("mailto:a@evil.tk?subject=x")],
             passwords |-> MaxPasswords, resources |-> ManyResources, iframes |-> 6,
             scripts |-> [i \in 1..MaxScripts |->
                            [blank |-> FALSE, obf |-> TRUE, redir |-> TRUE, rclick |-> TRUE]]]

Pages ==
    LET ScriptKinds == {
            [blank |-> TRUE, obf |-> FALSE, redir |-> FALSE, rclick |-> FALSE],
            [blank |-> FALSE, obf |-> TRUE, redir |-> FALSE, rclick |-> FALSE],
            [blank |-> FALSE, obf |-> FALSE, redir |-> TRUE, rclick |-> TRUE] }
        FormActions ==
            {Chars("/session"), Chars("login.php"), Chars("https://evil.tk/collect")}
        LinkHrefs ==
            {Chars("mailto:a@evil.tk?subject=x"), Chars("mailto:a@evil.tk"), Chars("/about")}
        Titles == {Chars("Welcome"), Chars("PayPal Bank"), Chars(" paypal login")}
        FaviconHrefs == {Chars("/favicon.ico"), Chars("https://static.evil.tk/f.ico")}
    IN  {BlankPage, FullPage}
        \cup {[BlankPage EXCEPT !.has_title = TRUE, !.title = t] : t \in Titles}
        \cup {[BlankPage EXCEPT !.favicon = f] : f \in FaviconHrefs}
        \cup {[BlankPage EXCEPT !.forms = f] : f \in SeqsUpTo(FormActions, MaxForms)}
        \cup {[BlankPage EXCEPT !.forms = <<Chars("/session")>>, !.passwords = n] :
                 n \in 1..MaxPasswords}
        \cup {[BlankPage EXCEPT !.links = l] : l \in SeqsUpTo(LinkHrefs, MaxLinks)}
        \cup {[BlankPage EXCEPT !.resources = ManyResources],
              [BlankPage EXCEPT !.resources = SubSeq(ManyResources, 1, 8), !.iframes = 6],
              [BlankPage EXCEPT !.iframes = 5]}
        \cup {[BlankPage EXCEPT !.scripts = sc] : sc \in SeqsUpTo(ScriptKinds, MaxScripts)}

\* fetch(url): None (answered = FALSE) when requests.get raises, else the
\* response.  A Response is true when its status is below 400.
RespNone == [answered |-> FALSE, status |-> 0, page |-> BlankPage]

FetchResults ==
    {RespNone,
     [answered |-> TRUE, status |-> 404, page |-> BlankPage],
     [answered |-> TRUE, status |-> 204, page |-> BlankPage],
     [answered |-> TRUE, status |-> 999, page |-> BlankPage]}
    \cup {[answered |-> TRUE, status |-> 200, page |-> p] : p \in Pages}

\* bool(resp)
RespTrue(r) == r.answered /\ ~(r.status >= 400 /\ r.status < 600)

(***************************************************************************)
(* State: the local variables of one call of analyze, its position, the    *)
(* report it returned, and the collector calls it made.                    *)
(***************************************************************************)

VARIABLES
    pc,          \* position in analyze: idle, lexical, dns, tls, whois,
                 \* fetch, retry, content, verdict, done, raised
    url,         \* the argument of analyze
    normalized,  \* normalized
    parsed,      \* parsed = urlparse(normalized)
    host,        \* host
    domain,      \* domain
    tld,         \* tld
    findings,    \* findings, a list of (severity, description, evidence)
    score,       \* score
    dns,         \* dns
    uses_https,  \* uses_https
    age_days,    \* age_days: [known, days], known = FALSE for None
    resp,        \* resp
    sources,     \* sources
    report,      \* the dictionary analyze returned
    calls,       \* the collector calls made so far, in order
    nin,         \* normalize_url checked alone: its input,
    nout,        \* the results of applying it once and twice,
    npc,         \* and how often it was applied
    scan_history,   \* app.py: the in-memory scan log
    history_file,   \* app.py: the file HISTORY_FILE
    threads,        \* app.py: the request each server thread is handling
    served          \* app.py: the number of requests received so far

avars == <<pc, url, normalized, parsed, host, domain, tld, findings, score, dns,
           uses_https, age_days, resp, sources, report, calls>>
nvars == <<nin, nout, npc>>
svars == <<scan_history, history_file, threads, served>>
vars == <<pc, url, normalized, parsed, host, domain, tld, findings, score, dns,
          uses_https, age_days, resp, sources, report, calls, nin, nout, npc,
          scan_history, history_file, threads, served>>

\* One finding.  kind names the description text and the WEIGHTS entry of
\* the rule; text and count are the evidence.
Finding(sev, kind, text, count) ==
    [severity |-> sev, kind |-> kind, text |-> text, count |-> count]

NoParse == [ok |-> FALSE]
NoAge == [known |-> FALSE, days |-> 0]
NoReport == [returned |-> FALSE]
NoSources == [external_domains |-> {}, form_actions |-> <<>>, mailto_links |-> <<>>,
              obfuscated_scripts |-> <<>>, redirect_scripts |-> <<>>,
              rightclick_block |-> FALSE, has_title |-> FALSE, title |-> <<>>,
              favicon_external |-> FALSE]

AnalyzeInit ==
    /\ pc = "idle"
    /\ url = <<>>
    /\ normalized = <<>>
    /\ parsed = NoParse
    /\ host = <<>>
    /\ domain = <<>>
    /\ tld = <<>>
    /\ findings = <<>>
    /\ score = 0
    /\ dns = DnsNone
    /\ uses_https = FALSE
    /\ age_days = NoAge
    /\ resp = RespNone
    /\ sources = NoSources
    /\ report = NoReport
    /\ calls = <<>>

NormIdle == nin = <<>> /\ nout = <<>> /\ npc = 0

\* The server threads of the service layer.
MaxThreads == 2
Threads == 1..MaxThreads

\* No request.
NoRequest == [kind |-> "none", url |-> <<>>, index |-> 0, theme |-> ""]

\* A thread that is handling no request: req is the request, appends the
\* entries this request appended, in_try whether it is inside the try block
\* of scan_url, buf the text that json.dump has written to the buffer of
\* its file object (the entries in it; bracket: it begins with "[").
IdleThread == [pc |-> "idle", req |-> NoRequest, appends |-> 0, in_try |-> FALSE,
               buf |-> [entries |-> <<>>, bracket |-> FALSE]]

\* HISTORY_FILE before the first save: it does not exist.  A file that
\* exists has size bytes: the text written last (its entries; bracket: it
\* begins with "["), and behind it what is left of longer texts.
NoFile == [exists |-> FALSE, size |-> 0, bracket |-> FALSE, entries |-> <<>>]

\* app.py at startup, lines 11 and 30: no history file, an empty log.
ServiceIdle ==
    /\ scan_history = <<>>
    /\ history_file = NoFile
    /\ threads = [t \in Threads |-> IdleThread]
    /\ served = 0

Init == AnalyzeInit /\ NormIdle /\ ServiceIdle

(***************************************************************************)
(* analyze, lines 350-376: normalisation and the allow-list exit.          *)
(***************************************************************************)

IsHttps(p) == Lower(p.scheme) = Chars("https")

\* domain.split('.')[-1]
LastLabel(d) == LET Last(parts) == parts[Len(parts)] IN Last(Split(d, "."))

\* analyze(u) when normalize_url(u) or urlparse(normalized) raises.
AnalyzeRaises(u) ==
    /\ pc = "idle"
    /\ \E n \in {normalize_url(u)} :
          /\ ~n.ok \/ ~urlparse(n.value).ok
          /\ normalized' = n.value
    /\ pc' = "raised"
    /\ url' = u
    /\ UNCHANGED <<parsed, host, domain, tld, findings, score, dns, uses_https,
                   age_days, resp, sources, report, calls>>
    /\ UNCHANGED <<nvars, svars>>

\* AnalyzeTrusted without the early return: the allow-listed domain goes on
\* to the checks like any other.
AnalyzeTrusted_NoExit(u) ==
    /\ pc = "idle"
    /\ \E n \in {normalize_url(u)} :
          /\ n.ok
          /\ \E p \in {urlparse(n.value)}, d \in {domain_parts(n.value)} :
                /\ p.ok
                /\ is_trusted_domain(d)
                /\ normalized' = n.value
                /\ parsed' = p
                /\ host' = hostname(p)
                /\ domain' = d
    /\ pc' = "lexical"
    /\ url' = u
    /\ findings' = <<>>
    /\ score' = 0
    /\ UNCHANGED <<tld, dns, uses_https, age_days, resp, sources, report, calls>>
    /\ UNCHANGED <<nvars, svars>>

\* analyze(u) for a domain on the allow-list: the report of lines 360-376.
AnalyzeTrusted(u) ==
    /\ pc = "idle"
    /\ \E n \in {normalize_url(u)} :
          /\ n.ok
          /\ \E p \in {urlparse(n.value)}, d \in {domain_parts(n.value)} :
                /\ p.ok
                /\ is_trusted_domain(d)
                /\ normalized' = n.value
                /\ parsed' = p
                /\ domain' = d
                /\ \E h \in {hostname(p)} :
                      /\ host' = h
                      /\ report' =
                            [returned |-> TRUE, input_url |-> u, normalized_url |-> n.value,
                             host |-> h, domain |-> d, tld |-> LastLabel(d),
                             verdict |-> "Likely safe", risk_score |-> 0, threats |-> <<>>,
                             context |-> [dns_resolve |-> TRUE, domain_age_days |-> NoAge,
                                          uses_https |-> IsHttps(p), trusted_domain |-> TRUE],
                             \* "sources": {}, the dict with no key
                             sources |-> <<>>]
    /\ pc' = "done"
    /\ url' = u
    /\ findings' = <<>>
    /\ score' = 0
    /\ UNCHANGED <<tld, dns, uses_https, age_days, resp, sources, calls>>
    /\ UNCHANGED <<nvars, svars>>

\* analyze(u) for any other domain: lines 351-359, on to the checks.
AnalyzeStart(u) ==
    /\ pc = "idle"
    /\ \E n \in {normalize_url(u)} :
          /\ n.ok
          /\ \E p \in {urlparse(n.value)}, d \in {domain_parts(n.value)} :
                /\ p.ok
                /\ ~is_trusted_domain(d)
                /\ normalized' = n.value
                /\ parsed' = p
                /\ host' = hostname(p)
                /\ domain' = d
    /\ pc' = "lexical"
    /\ url' = u
    /\ findings' = <<>>
    /\ score' = 0
    /\ UNCHANGED <<tld, dns, uses_https, age_days, resp, sources, report, calls>>
    /\ UNCHANGED <<nvars, svars>>

(***************************************************************************)
(* analyze, lines 378-424: the checks on the URL text.                     *)
(***************************************************************************)

\* SubCount that counts every label of the host.
SubCount_Labels(h, d) ==
    IF Contains(h, d)
    THEN Len(SelectSeq(Split(h, "."), LAMBDA q : q # <<>>))
    ELSE CountChar(h, ".") + 1

\* len([p for p in host.split(".") if p]) - 2 if domain in host
\* else host.count(".")
SubCount(h, d) ==
    IF Contains(h, d)
    THEN Len(SelectSeq(Split(h, "."), LAMBDA q : q # <<>>)) - 2
    ELSE CountChar(h, ".")

\* (ext.suffix or "").split(".")[-1].lower()
TldOf(n) == Lower(LastLabel(tld_extract(n).suffix))

\* normalized.split("://", 1)[1]
AfterScheme(n) == Partition(n, Chars("://"))[3]

\* Indices of the keywords that occur in the lower-cased URL.
KeywordHits(n) ==
    {i \in 1..Len(SUSPICIOUS_KEYWORDS) : Contains(Lower(n), SUSPICIOUS_KEYWORDS[i])}

\* FirstKeyword without the break: the last keyword of the list that occurs.
FirstKeyword_Last(n) ==
    SUSPICIOUS_KEYWORDS[CHOOSE i \in KeywordHits(n) : \A j \in KeywordHits(n) : j =< i]

\* The keyword at which the loop of lines 420-424 breaks.
FirstKeyword(n) ==
    SUSPICIOUS_KEYWORDS[CHOOSE i \in KeywordHits(n) : \A j \in KeywordHits(n) : i =< j]

One(cond, f) == IF cond THEN <<f>> ELSE <<>>
Add(cond, w) == IF cond THEN w ELSE 0

SuspiciousTld(t) == t \in SUSPICIOUS_TLDS /\ ~is_legitimate_tld(t)

LexicalFindings(n, h, d) ==
    One(is_ip(h), Finding("MEDIUM", "ip_in_url", h, 0))
    \o One(StartsWith(h, Chars("xn--")) \/ Contains(h, Chars(".xn--")),
           Finding("LOW", "punycode", h, 0))
    \o One(contains_unicode_homoglyphs(h), Finding("LOW", "unicode_homoglyphs", h, 0))
    \o One(SubCount(h, d) >= 6, Finding("LOW", "too_many_subdomains", h, SubCount(h, d)))
    \o One(SuspiciousTld(TldOf(n)), Finding("LOW", "suspicious_tld", TldOf(n), 0))
    \o One(Len(n) > 180, Finding("LOW", "url_length", SubSeq(n, 1, 100) \o Chars("..."), Len(n)))
    \o One(Contains(n, <<"@">>), Finding("MEDIUM", "at_symbol", <<>>, 0))
    \o One(Contains(AfterScheme(n), <<"/", "/">>), Finding("LOW", "double_slash", <<>>, 0))
    \o One(CountChar(h, "-") >= 4, Finding("LOW", "many_hyphens", h, 0))
    \o One(KeywordHits(n) # {}, Finding("LOW", "suspicious_keywords", FirstKeyword(n), 0))

LexicalScore(n, h, d) ==
    Add(is_ip(h), WEIGHTS.ip_in_url)
    + Add(StartsWith(h, Chars("xn--")) \/ Contains(h, Chars(".xn--")), WEIGHTS.punycode)
    + Add(contains_unicode_homoglyphs(h), WEIGHTS.unicode_homoglyphs)
    + Add(SubCount(h, d) >= 6, WEIGHTS.too_many_subdomains)
    + Add(SuspiciousTld(TldOf(n)), WEIGHTS.suspicious_tld)
    + Add(Len(n) > 180, WEIGHTS.url_length)
    + Add(Contains(n, <<"@">>), WEIGHTS.at_symbol)
    + Add(Contains(AfterScheme(n), <<"/", "/">>), WEIGHTS.double_slash)
    + Add(CountChar(h, "-") >= 4, WEIGHTS.many_hyphens)
    + Add(KeywordHits(n) # {}, WEIGHTS.suspicious_keywords)

\* Line 379 on a host with U+0000 or a surrogate code point: the call of
\* socket.inet_aton raises ValueError, which is_ip does not catch.
LexicalRaises ==
    /\ pc = "lexical"
    /\ \E i \in 1..Len(host) :
          Len(host[i]) > 1 /\ CodePoint(host[i]) \in {0} \cup (55296..57343)
    /\ pc' = "raised"
    /\ UNCHANGED <<url, normalized, parsed, host, domain, tld, findings, score, dns,
                   uses_https, age_days, resp, sources, report, calls>>
    /\ UNCHANGED <<nvars, svars>>

\* Lines 378-424 on a host that is_ip can read.
LexicalChecks ==
    /\ pc = "lexical"
    /\ \A i \in 1..Len(host) :
          Len(host[i]) > 1 => CodePoint(host[i]) \notin {0} \cup (55296..57343)
    /\ pc' = "dns"
    /\ tld' = TldOf(normalized)
    /\ findings' = findings \o LexicalFindings(normalized, host, domain)
    /\ score' = score + LexicalScore(normalized, host, domain)
    /\ UNCHANGED <<url, normalized, parsed, host, domain, dns, uses_https, age_days,
                   resp, sources, report, calls>>
    /\ UNCHANGED <<nvars, svars>>

(***************************************************************************)
(* analyze, lines 426-468: name resolution, TLS probe, registration age.   *)
(***************************************************************************)

Call(fn, arg) == [fn |-> fn, arg |-> arg]

\* The resolved hosts of lines 433-440 that add a finding: dns[2] is the
\* third component of the triple, the address list.
MismatchedHosts(r, d) ==
    SelectSeq(r.ipaddrlist, LAMBDA rh : ~is_ip(rh) /\ domain_parts(rh) # d)

\* DnsFindings that records a failed resolution once per attempt of two.
DnsFindings_Twice(r, d) ==
    IF ~r.found
    THEN <<Finding("HIGH", "dns_missing", <<>>, 0), Finding("HIGH", "dns_missing", <<>>, 0)>>
    ELSE [i \in 1..Len(MismatchedHosts(r, d)) |->
            Finding("MEDIUM", "dns_mismatch", MismatchedHosts(r, d)[i], 0)]

DnsFindings(r, d) ==
    IF ~r.found
    THEN <<Finding("HIGH", "dns_missing", <<>>, 0)>>
    ELSE [i \in 1..Len(MismatchedHosts(r, d)) |->
            Finding("MEDIUM", "dns_mismatch", MismatchedHosts(r, d)[i], 0)]

DnsScore(r, d) ==
    IF ~r.found THEN WEIGHTS.dns_missing
    ELSE DNS_MISMATCH_PENALTY * Len(MismatchedHosts(r, d))

\* dns = get_dns_a(host) and lines 428-440.
ResolveDns ==
    /\ pc = "dns"
    /\ \E r \in DnsResults(host) :
          /\ dns' = r
          /\ findings' = findings \o DnsFindings(r, domain)
          /\ score' = score + DnsScore(r, domain)
    /\ calls' = Append(calls, Call("get_dns_a", host))
    /\ pc' = "tls"
    /\ UNCHANGED <<url, normalized, parsed, host, domain, tld, uses_https, age_days,
                   resp, sources, report>>
    /\ UNCHANGED <<nvars, svars>>

TlsFindings(https, cert) ==
    IF ~https THEN <<Finding("HIGH", "no_https", <<>>, 0)>>
    ELSE IF ~cert.present THEN <<Finding("HIGH", "weak_tls", <<>>, 0)>>
    ELSE IF ~cert.dated THEN <<>>
    ELSE One(cert.total_days < 30, Finding("LOW", "cert_short_validity", <<>>, cert.total_days))
         \o One(cert.days_left < 7, Finding("MEDIUM", "cert_expiring_soon", <<>>, 0))

TlsScore(https, cert) ==
    IF ~https THEN WEIGHTS.no_https
    ELSE IF ~cert.present THEN WEIGHTS.weak_tls
    ELSE IF ~cert.dated THEN 0
    ELSE Add(cert.total_days < 30, WEIGHTS.cert_short_validity)
         + Add(cert.days_left < 7, WEIGHTS.cert_expiring_soon)

\* cert = get_tls_cert(host) and lines 443-461.  The probe of line 442 is
\* made before the scheme is looked at.
TlsProbe ==
    /\ pc = "tls"
    /\ \E cert \in CertResults :
          /\ findings' = findings \o TlsFindings(IsHttps(parsed), cert)
          /\ score' = score + TlsScore(IsHttps(parsed), cert)
    /\ uses_https' = IsHttps(parsed)
    /\ calls' = Append(calls, Call("get_tls_cert", host))
    /\ pc' = "whois"
    /\ UNCHANGED <<url, normalized, parsed, host, domain, tld, dns, age_days,
                   resp, sources, report>>
    /\ UNCHANGED <<nvars, svars>>

\* domain_age_days(w): max(0, whole days since the creation date), or None.
domain_age_days(w) ==
    IF ~w.found \/ ~w.has_date THEN NoAge
    ELSE [known |-> TRUE, days |-> IF w.created_ago < 0 THEN 0 ELSE w.created_ago]

IsNew(age) == age.known /\ age.days < 30

\* whois_data = get_whois(domain) and lines 465-468.
WhoisLookup ==
    /\ pc = "whois"
    /\ \E w \in WhoisResults :
          LET age == domain_age_days(w)
          IN  /\ age_days' = age
              /\ findings' = findings
                     \o One(IsNew(age), Finding("MEDIUM", "domain_too_new", <<>>, age.days))
              /\ score' = score + Add(IsNew(age), WEIGHTS.domain_too_new)
    /\ calls' = Append(calls, Call("get_whois", domain))
    /\ pc' = "fetch"
    /\ UNCHANGED <<url, normalized, parsed, host, domain, tld, dns, uses_https,
                   resp, sources, report>>
    /\ UNCHANGED <<nvars, svars>>

(***************************************************************************)
(* analyze, lines 470-480: the page fetch and its HTTPS retry.             *)
(***************************************************************************)

\* url.replace("http://", "https://", 1)
ReplaceFirst(t, old, new) ==
    LET At(i) == IF i = 0 THEN t
                 ELSE SubSeq(t, 1, i - 1) \o new \o From(t, i + Len(old))
    IN  At(Find(t, old))

try_https_upgrade(u) ==
    IF urlparse(u).scheme = Chars("http")
    THEN ReplaceFirst(u, Chars("http://"), Chars("https://"))
    ELSE u

\* FetchPage that goes on to the HTTPS retry whatever the first answer was.
FetchPage_RetryAlways ==
    /\ pc = "fetch"
    /\ \E r \in FetchResults :
          /\ resp' = r
          /\ pc' = IF try_https_upgrade(normalized) # normalized
                   THEN "retry" ELSE "content"
    /\ calls' = Append(calls, Call("fetch", normalized))
    /\ UNCHANGED <<url, normalized, parsed, host, domain, tld, findings, score, dns,
                   uses_https, age_days, sources, report>>
    /\ UNCHANGED <<nvars, svars>>

\* resp = fetch(normalized), lines 471-475.
FetchPage ==
    /\ pc = "fetch"
    /\ \E r \in FetchResults :
          /\ resp' = r
          /\ pc' = IF ~RespTrue(r) /\ try_https_upgrade(normalized) # normalized
                   THEN "retry" ELSE "content"
    /\ calls' = Append(calls, Call("fetch", normalized))
    /\ UNCHANGED <<url, normalized, parsed, host, domain, tld, findings, score, dns,
                   uses_https, age_days, sources, report>>
    /\ UNCHANGED <<nvars, svars>>

\* FetchUpgraded that forgets line 480 (uses_https = True).
FetchUpgraded_KeepFlag ==
    /\ pc = "retry"
    /\ \E https_url \in {try_https_upgrade(normalized)} :
          /\ \E r \in FetchResults :
                /\ resp' = r
                /\ IF RespTrue(r)
                   THEN /\ normalized' = https_url
                        /\ parsed' = urlparse(https_url)
                   ELSE UNCHANGED <<normalized, parsed>>
          /\ calls' = Append(calls, Call("fetch", https_url))
    /\ pc' = "content"
    /\ UNCHANGED <<url, host, domain, tld, findings, score, dns, uses_https,
                   age_days, sources, report>>
    /\ UNCHANGED <<nvars, svars>>

\* resp = fetch(https_url), lines 476-480.
FetchUpgraded ==
    /\ pc = "retry"
    /\ \E https_url \in {try_https_upgrade(normalized)} :
          /\ \E r \in FetchResults :
                /\ resp' = r
                /\ IF RespTrue(r)
                   THEN /\ normalized' = https_url
                        /\ parsed' = urlparse(https_url)
                        /\ uses_https' = TRUE
                   ELSE UNCHANGED <<normalized, parsed, uses_https>>
          /\ calls' = Append(calls, Call("fetch", https_url))
    /\ pc' = "content"
    /\ UNCHANGED <<url, host, domain, tld, findings, score, dns, age_days,
                   sources, report>>
    /\ UNCHANGED <<nvars, svars>>

(***************************************************************************)
(* analyze, lines 482-583: the checks on the fetched page.                 *)
(***************************************************************************)

\* looks_like_brand_mismatch that is true as soon as one brand of the title
\* is missing from the domain.
looks_like_brand_mismatch_Any(title, d) ==
    /\ Strip(title) # <<>>
    /\ \E i \in 1..Len(BRAND_HINTS) :
          /\ Contains(Lower(Strip(title)), Lower(BRAND_HINTS[i]))
          /\ ~Contains(Lower(d), Lower(BRAND_HINTS[i]))

\* looks_like_brand_mismatch(title, domain)
looks_like_brand_mismatch(title, d) ==
    LET t == Strip(title)
        title_brands == {i \in 1..Len(BRAND_HINTS) : Contains(Lower(t), Lower(BRAND_HINTS[i]))}
    IN  /\ t # <<>>
        /\ title_brands # {}
        /\ \A i \in title_brands : ~Contains(Lower(d), Lower(BRAND_HINTS[i]))

TitleMismatch(page, d) ==
    page.has_title /\ page.title # <<>> /\ looks_like_brand_mismatch(page.title, d)

IsExternal(ref, d) ==
    LET Other(ref_domain) == ref_domain # <<>> /\ ref_domain # d
    IN  Other(domain_parts(ref))

FaviconExternal(page, d) == page.favicon # <<>> /\ IsExternal(page.favicon, d)

\* ExternalForms that stops at the first external form.
ExternalForms_First(page, d) ==
    LET ext == SelectSeq(page.forms, LAMBDA a : IsExternal(a, d))
    IN  IF ext = <<>> THEN <<>> ELSE <<ext[1]>>

\* The form actions of lines 517-523 that add a finding, in page order.
ExternalForms(page, d) == SelectSeq(page.forms, LAMBDA a : IsExternal(a, d))

\* The hrefs of lines 526-531 that add a finding, in page order.
MailtoLinks(page) ==
    SelectSeq(page.links, LAMBDA h : StartsWith(h, Chars("mailto:")) /\ Contains(h, <<"?">>))

\* collect_external_domains(soup, domain); a favicon is a link element too.
collect_external_domains(page, d) ==
    LET refs == {page.resources[i] : i \in 1..Len(page.resources)}
                \cup (IF page.favicon # <<>> THEN {page.favicon} ELSE {})
    IN  {domain_parts(r) : r \in {x \in refs : IsExternal(x, d)}}

\* The findings of one inline script, lines 553-583.
ScriptFindings(sc) ==
    IF sc.blank THEN <<>>
    ELSE One(sc.obf, Finding("MEDIUM", "obfuscation", <<>>, 0))
         \o One(sc.redir, Finding("LOW", "redirect_js", <<>>, 0))
         \o One(sc.rclick, Finding("LOW", "rightclick_block", <<>>, 0))

RECURSIVE AllScriptFindings(_)
AllScriptFindings(scripts) ==
    IF scripts = <<>> THEN <<>>
    ELSE ScriptFindings(Head(scripts)) \o AllScriptFindings(Tail(scripts))

\* Indices of the inline scripts that match a hint list (obf, redir, rclick).
ScriptsWith(page, family) ==
    SelectSeq([i \in 1..Len(page.scripts) |-> i],
              LAMBDA i : ~page.scripts[i].blank /\ page.scripts[i][family])

ContentFindings(page, d, https) ==
    One(TitleMismatch(page, d), Finding("MEDIUM", "brand_title_mismatch", page.title, 0))
    \o One(FaviconExternal(page, d),
           Finding("LOW", "external_favicon", domain_parts(page.favicon), 0))
    \o [i \in 1..Len(ExternalForms(page, d)) |->
          Finding("HIGH", "external_form_action", ExternalForms(page, d)[i], 0)]
    \o [i \in 1..Len(MailtoLinks(page)) |->
          Finding("MEDIUM", "mailto_exfil", MailtoLinks(page)[i], 0)]
    \o One(~https /\ page.passwords > 0,
           Finding("HIGH", "password_over_http", <<>>, page.passwords))
    \o One(Cardinality(collect_external_domains(page, d)) > 8,
           Finding("LOW", "many_external_scripts", <<>>,
                   Cardinality(collect_external_domains(page, d))))
    \o One(page.iframes > 5, Finding("LOW", "many_iframes", <<>>, page.iframes))
    \o AllScriptFindings(page.scripts)

ContentScore(page, d, https) ==
    Add(TitleMismatch(page, d), WEIGHTS.brand_title_mismatch)
    + Add(FaviconExternal(page, d), WEIGHTS.external_favicon)
    + WEIGHTS.external_form_action * Len(ExternalForms(page, d))
    + WEIGHTS.mailto_exfil * Len(MailtoLinks(page))
    + Add(~https /\ page.passwords > 0, WEIGHTS.password_over_http)
    + Add(Cardinality(collect_external_domains(page, d)) > 8, WEIGHTS.many_external_scripts)
    + Add(page.iframes > 5, WEIGHTS.many_iframes)
    + WEIGHTS.obfuscation * Len(ScriptsWith(page, "obf"))
    + WEIGHTS.redirect_js * Len(ScriptsWith(page, "redir"))
    + WEIGHTS.rightclick_block * Len(ScriptsWith(page, "rclick"))

ContentSources(page, d) ==
    [external_domains |-> collect_external_domains(page, d),
     form_actions |-> ExternalForms(page, d),
     mailto_links |-> MailtoLinks(page),
     obfuscated_scripts |-> ScriptsWith(page, "obf"),
     redirect_scripts |-> ScriptsWith(page, "redir"),
     rightclick_block |-> ScriptsWith(page, "rclick") # <<>>,
     has_title |-> page.has_title,
     title |-> page.title,
     favicon_external |-> FaviconExternal(page, d)]

\* Lines 482-583 when resp is true and its status is 200.
InspectContent ==
    /\ pc = "content"
    /\ RespTrue(resp) /\ resp.status = 200
    /\ findings' = findings \o ContentFindings(resp.page, domain, uses_https)
    /\ score' = score + ContentScore(resp.page, domain, uses_https)
    /\ sources' = ContentSources(resp.page, domain)
    /\ pc' = "verdict"
    /\ UNCHANGED <<url, normalized, parsed, host, domain, tld, dns, uses_https,
                   age_days, resp, report, calls>>
    /\ UNCHANGED <<nvars, svars>>

\* Lines 482-493 when there is no page to inspect.
SkipContent ==
    /\ pc = "content"
    /\ ~(RespTrue(resp) /\ resp.status = 200)
    /\ sources' = NoSources
    /\ pc' = "verdict"
    /\ UNCHANGED <<url, normalized, parsed, host, domain, tld, findings, score, dns,
                   uses_https, age_days, resp, report, calls>>
    /\ UNCHANGED <<nvars, svars>>

(***************************************************************************)
(* analyze, lines 585-612: verdict and report.                             *)
(***************************************************************************)

\* Verdict with the thresholds 25 and 15 that lines 587-589 replaced.
Verdict_OldThresholds(sc) ==
    IF sc >= 25 THEN "Phishing"
    ELSE IF sc >= 15 THEN "Suspicious"
    ELSE "Likely safe"

Verdict(sc) ==
    IF sc >= 35 THEN "Phishing"
    ELSE IF sc >= 20 THEN "Suspicious"
    ELSE "Likely safe"

\* Finish that clamps the reported score to the documented 0-100 range.
Finish_Clamped ==
    /\ pc = "verdict"
    /\ report' = [returned |-> TRUE, input_url |-> url, normalized_url |-> normalized,
                  host |-> host, domain |-> domain, tld |-> tld,
                  verdict |-> Verdict(score),
                  risk_score |-> IF score > 100 THEN 100 ELSE score,
                  threats |-> findings,
                  context |-> [dns_resolve |-> dns.found, domain_age_days |-> age_days,
                               uses_https |-> uses_https, trusted_domain |-> FALSE],
                  sources |-> sources]
    /\ pc' = "done"
    /\ UNCHANGED <<url, normalized, parsed, host, domain, tld, findings, score, dns,
                   uses_https, age_days, resp, sources, calls>>
    /\ UNCHANGED <<nvars, svars>>

Finish ==
    /\ pc = "verdict"
    /\ report' = [returned |-> TRUE, input_url |-> url, normalized_url |-> normalized,
                  host |-> host, domain |-> domain, tld |-> tld,
                  verdict |-> Verdict(score), risk_score |-> score, threats |-> findings,
                  context |-> [dns_resolve |-> dns.found, domain_age_days |-> age_days,
                               uses_https |-> uses_https, trusted_domain |-> FALSE],
                  sources |-> sources]
    /\ pc' = "done"
    /\ UNCHANGED <<url, normalized, parsed, host, domain, tld, findings, score, dns,
                   uses_https, age_days, resp, sources, calls>>
    /\ UNCHANGED <<nvars, svars>>

\* The call is over (returned or raised): its locals are discarded.
Return ==
    /\ pc \in {"done", "raised"}
    /\ pc' = "idle"
    /\ url' = <<>>
    /\ normalized' = <<>>
    /\ parsed' = NoParse
    /\ host' = <<>>
    /\ domain' = <<>>
    /\ tld' = <<>>
    /\ findings' = <<>>
    /\ score' = 0
    /\ dns' = DnsNone
    /\ uses_https' = FALSE
    /\ age_days' = NoAge
    /\ resp' = RespNone
    /\ sources' = NoSources
    /\ report' = NoReport
    /\ calls' = <<>>
    /\ UNCHANGED <<nvars, svars>>

Next ==
    \/ \E u \in Urls : AnalyzeRaises(u)
    \/ \E u \in Urls : AnalyzeTrusted(u)
    \/ \E u \in Urls : AnalyzeStart(u)
    \/ LexicalRaises
    \/ LexicalChecks
    \/ ResolveDns
    \/ TlsProbe
    \/ WhoisLookup
    \/ FetchPage
    \/ FetchUpgraded
    \/ InspectContent
    \/ SkipContent
    \/ Finish
    \/ Return

Spec == Init /\ [][Next]_vars

(***************************************************************************)
(* normalize_url on its own: applied to an input, then to its own result.  *)
(***************************************************************************)

NormInit == AnalyzeInit /\ ServiceIdle /\ nin \in NormInputs /\ nout = <<>> /\ npc = 0

NormalizeOnce ==
    /\ npc = 0
    /\ nout' = <<normalize_url(nin)>>
    /\ npc' = 1
    /\ UNCHANGED nin
    /\ UNCHANGED <<avars, svars>>

NormalizeTwice ==
    /\ npc = 1
    /\ nout[1].ok
    /\ nout' = Append(nout, normalize_url(nout[1].value))
    /\ npc' = 2
    /\ UNCHANGED nin
    /\ UNCHANGED <<avars, svars>>

NormNext == NormalizeOnce \/ NormalizeTwice

SpecNorm == NormInit /\ [][NormNext]_vars

(***************************************************************************)
(* The service layer, app.py: the scan log, its file, and the requests     *)
(* that server threads handle concurrently.  A handler is a sequence of    *)
(* steps; steps of different threads interleave.  The state is what the    *)
(* service keeps: the session is a cookie that travels with the request    *)
(* and the response, a response leaves with the end of its handler, and an *)
(* entry's timestamp is wall-clock text that nothing reads.                *)
(***************************************************************************)

MaxRequests == 2    \* requests received in one run

\* URLs posted to /api/scan: none, an allow-listed one, one that is
\* analysed, one on which analyze raises.
ScanUrls == {
    <<>>,
    Chars("paypal.com"),
    Chars("safe-pay.top"),
    Chars("http://[suspicious") }

\* The requests of the routes that read or write the scan log, and
\* /api/theme.
Requests ==
    {[NoRequest EXCEPT !.kind = "scan", !.url = u] : u \in ScanUrls}
    \cup {[NoRequest EXCEPT !.kind = "clear"], [NoRequest EXCEPT !.kind = "stats"]}
    \cup {[NoRequest EXCEPT !.kind = "download", !.index = 0]}
    \cup {[NoRequest EXCEPT !.kind = "theme", !.theme = "dark"]}

\* scan_entry without its timestamp; confidence in hundredths.
Entry(u, status, confidence) == [url |-> u, status |-> status, confidence |-> confidence]

\* analyze(u) raised.
NoResult == [returned |-> FALSE, verdict |-> "", risk_score |-> 0, domain_age_days |-> NoAge]

\* result = analyze(url), line 125, as scan_url reads it, when get_dns_a
\* answers r, get_tls_cert cert, get_whois w, fetch(normalized) first and
\* fetch(https_url) second: an exception (returned = FALSE), the allow-list
\* report of lines 360-376, or the report of lines 378-612.
AnalyzeResult(u, r, cert, w, first, second) ==
    LET Report(sc) == [returned |-> TRUE, verdict |-> Verdict(sc), risk_score |-> sc,
                       domain_age_days |-> domain_age_days(w)]
        Content(answer, d, https) ==
            IF RespTrue(answer) /\ answer.status = 200
            THEN ContentScore(answer.page, d, https) ELSE 0
        Unreadable(h) ==
            \E i \in 1..Len(h) :
                Len(h[i]) > 1 /\ CodePoint(h[i]) \in {0} \cup (55296..57343)
        \* retried: line 476 fetched https_url
        Checked(n, p, h, d, retried) ==
            IF is_trusted_domain(d)
            THEN [returned |-> TRUE, verdict |-> "Likely safe", risk_score |-> 0,
                  domain_age_days |-> NoAge]
            ELSE IF Unreadable(h) THEN NoResult
            ELSE Report(LexicalScore(n, h, d)
                        + DnsScore(r, d)
                        + TlsScore(IsHttps(p), cert)
                        + Add(IsNew(domain_age_days(w)), WEIGHTS.domain_too_new)
                        + Content(IF retried THEN second ELSE first, d,
                                  IsHttps(p) \/ (retried /\ RespTrue(second))))
        Parsed(n, p) ==
            IF ~p.ok THEN NoResult
            ELSE Checked(n, p, hostname(p), domain_parts(n),
                         ~RespTrue(first) /\ try_https_upgrade(n) # n)
        Normalized(n) ==
            IF ~n.ok THEN NoResult ELSE Parsed(n.value, urlparse(n.value))
    IN  Normalized(normalize_url(u))

\* What analyze(u) hands to scan_url, over answers of the collectors: no
\* address and no certificate, no registration record or a domain
\* registered 29 or 30 days ago, no page or a page with every finding.
AnalyzeResults(u) ==
    {AnalyzeResult(u, DnsNone, CertNone, w, first, RespNone) :
        w \in {WhoisNone} \cup {[found |-> TRUE, has_date |-> TRUE, created_ago |-> a] :
                                   a \in {29, 30}},
        first \in {RespNone, [answered |-> TRUE, status |-> 200, page |-> FullPage]}}

\* status_map.get(verdict, 'safe') on the stripped, lowercased verdict,
\* lines 128-136.
StatusOf(verdict) ==
    LET Mapped(v) ==
            IF v = Chars("phishing") THEN "dangerous"
            ELSE IF v = Chars("suspicious") THEN "suspicious"
            ELSE "safe"
    IN  Mapped(Lower(Strip(Chars(verdict))))

\* min(result['risk_score'] / 100, 0.99), line 138, in hundredths.
Confidence(risk_score) == IF risk_score < 99 THEN risk_score ELSE 99

\* The entry of the mock response chosen at lines 247-252.
MockEntry(u) ==
    IF Contains(u, Chars("safe")) THEN Entry(u, "safe", 92)
    ELSE IF Contains(u, Chars("suspicious")) THEN Entry(u, "suspicious", 65)
    ELSE Entry(u, "dangerous", 98)

\* scan_history.append(scan_entry) with the log moved to the front.
HistoryAppend_Front(h, e) == <<e>> \o h

\* scan_history.append(scan_entry)
HistoryAppend(h, e) == Append(h, e)

\* The bytes of the JSON text of the string s as json.dump writes it
\* (ensure_ascii): the quotes, two bytes for a quote, a backslash and the
\* controls with a short escape, six for every other code point outside
\* 0x20-0x7e (\uXXXX), twelve above U+FFFF (a surrogate pair).
JsonLen(s) ==
    LET Escaped(n) ==
            IF n = 8 THEN 2
            ELSE IF n < 32 \/ n = 127 THEN 6
            ELSE IF n < 127 THEN 1
            ELSE IF n < 65536 THEN 6
            ELSE 12
        Width(c) ==
            IF c \in {"\"", "\\", "\t", "\n", "\f", "\r"} THEN 2
            ELSE IF Len(c) = 1 THEN 1
            ELSE Escaped(CodePoint(c))
        RECURSIVE Sum(_)
        Sum(i) == IF i = 0 THEN 0 ELSE Width(s[i]) + Sum(i - 1)
    IN  2 + Sum(Len(s))

\* The bytes of one entry in the text of json.dump(scan_history, f,
\* indent=2): the braces, four members on a line of their own ("\n    ",
\* the quoted key, ": ", the value), three commas and "\n  " before the
\* closing brace, 72 bytes, and the values: the URL, the status, the
\* confidence as repr of the float (0.0, 0.1, 0.14), and the timestamp, 19
\* characters in quotes.
EntryLen(e) ==
    72 + JsonLen(e.url) + JsonLen(Chars(e.status))
    + (IF e.confidence % 10 = 0 THEN 3 ELSE 4) + 21

\* The bytes of the text of json.dump for the log h: "[]", or "[", the
\* entries after "\n  " and between ",\n  ", and "\n]".  The text "\n]" of
\* a dump that fetched no entry has the two bytes of "[]".
DumpLen(h) ==
    LET RECURSIVE Sum(_)
        Sum(i) == IF i = 0 THEN 0 ELSE EntryLen(h[i]) + Sum(i - 1)
    IN  IF h = <<>> THEN 2 ELSE 1 + 3 + Sum(Len(h)) + 4 * (Len(h) - 1) + 2

\* HISTORY_FILE holding a dump of a log.
FileOf(h) == [exists |-> TRUE, size |-> DumpLen(h), bracket |-> TRUE, entries |-> h]

\* load_history(), lines 18-23, on a service whose log is empty (line 11):
\* the log after it, or the exception of json.load (ok = FALSE) on a file
\* that is no JSON text: one of no byte, the text "\n]", a text followed by
\* the rest of a longer one.
load_history(f) ==
    IF ~f.exists THEN [ok |-> TRUE, log |-> <<>>]
    ELSE IF f.bracket /\ f.size = DumpLen(f.entries) THEN [ok |-> TRUE, log |-> f.entries]
    ELSE [ok |-> FALSE, log |-> <<>>]

\* The service right after a start: load_history() has run on a file that
\* is absent or holds the log of an earlier run, and has not raised.
ServiceInit ==
    /\ AnalyzeInit
    /\ NormIdle
    /\ history_file \in {NoFile, FileOf(<<Entry(Chars("paypal.com"), "safe", 95)>>)}
    /\ load_history(history_file).ok
    /\ scan_history = load_history(history_file).log
    /\ threads = [t \in Threads |-> IdleThread]
    /\ served = 0

\* A thread takes a request.
Receive(t, r) ==
    /\ threads[t].pc = "idle"
    /\ served < MaxRequests
    /\ threads' = [threads EXCEPT ![t] = [IdleThread EXCEPT !.pc = r.kind, !.req = r]]
    /\ served' = served + 1
    /\ UNCHANGED <<scan_history, history_file>>
    /\ UNCHANGED <<avars, nvars>>

\* scan_url, lines 78-82: no URL, status 400.
ScanReject(t) ==
    /\ threads[t].pc = "scan"
    /\ threads[t].req.url = <<>>
    /\ threads' = [threads EXCEPT ![t] = IdleThread]
    /\ UNCHANGED <<scan_history, history_file, served>>
    /\ UNCHANGED <<avars, nvars>>

\* scan_url, lines 84-116: the allow-listed domain, up to the append.  The
\* save of line 117 is inside the try block.
ScanTrusted(t) ==
    /\ threads[t].pc = "scan"
    /\ \E u \in {threads[t].req.url} :
          /\ u # <<>>
          /\ \E d \in {domain_parts(u)} : is_trusted_domain(d)
          /\ scan_history' = HistoryAppend(scan_history, Entry(u, "safe", 95))
    /\ threads' = [threads EXCEPT ![t].pc = "save_open", ![t].appends = @ + 1,
                                  ![t].in_try = TRUE]
    /\ UNCHANGED <<history_file, served>>
    /\ UNCHANGED <<avars, nvars>>

\* scan_url, lines 124-173: analyze returned and the response was built.
\* The save of line 174 is inside the try block.
ScanAnalysed(t) ==
    /\ threads[t].pc = "scan"
    /\ \E u \in {threads[t].req.url} :
          /\ u # <<>>
          /\ \E d \in {domain_parts(u)} : ~is_trusted_domain(d)
          /\ \E result \in AnalyzeResults(u) :
                /\ result.returned
                /\ result.domain_age_days.known
                /\ scan_history' =
                      HistoryAppend(scan_history,
                                    Entry(u, StatusOf(result.verdict),
                                          Confidence(result.risk_score)))
    /\ threads' = [threads EXCEPT ![t].pc = "save_open", ![t].appends = @ + 1,
                                  ![t].in_try = TRUE]
    /\ UNCHANGED <<history_file, served>>
    /\ UNCHANGED <<avars, nvars>>

\* scan_url, lines 183-261: analyze raised, or line 151 compared the
\* domain age None with 30 and raised TypeError; the mock response.  The
\* save of line 262 is in the except block.
ScanFallback(t) ==
    /\ threads[t].pc = "scan"
    /\ \E u \in {threads[t].req.url} :
          /\ u # <<>>
          /\ \E d \in {domain_parts(u)} : ~is_trusted_domain(d)
          /\ \E result \in AnalyzeResults(u) :
                ~result.returned \/ ~result.domain_age_days.known
          /\ scan_history' = HistoryAppend(scan_history, MockEntry(u))
    /\ threads' = [threads EXCEPT ![t].pc = "save_open", ![t].appends = @ + 1]
    /\ UNCHANGED <<history_file, served>>
    /\ UNCHANGED <<avars, nvars>>

\* clear_history, line 59: scan_history.clear()
ClearHistory(t) ==
    /\ threads[t].pc = "clear"
    /\ scan_history' = <<>>
    /\ threads' = [threads EXCEPT ![t].pc = "save_open"]
    /\ UNCHANGED <<history_file, served>>
    /\ UNCHANGED <<avars, nvars>>

\* save_history, line 15: open(HISTORY_FILE, "w") leaves a file of no byte.
SaveOpen(t) ==
    /\ threads[t].pc = "save_open"
    /\ history_file' = [exists |-> TRUE, size |-> 0, bracket |-> FALSE, entries |-> <<>>]
    /\ threads' = [threads EXCEPT ![t].pc = "save_dump", ![t].in_try = FALSE]
    /\ UNCHANGED <<scan_history, served>>
    /\ UNCHANGED <<avars, nvars>>

\* save_history, line 15, when open raises OSError (the file cannot be
\* written, no descriptor is left): the file stays as it is.  Inside the
\* try block of scan_url the except block of lines 183-262 takes over: it
\* appends the entry of the mock response and saves again.  In the except
\* block and in clear_history the exception ends the handler (status 500).
SaveOpenFails(t) ==
    /\ threads[t].pc = "save_open"
    /\ IF threads[t].in_try
       THEN /\ scan_history' = HistoryAppend(scan_history, MockEntry(threads[t].req.url))
            /\ threads' = [threads EXCEPT ![t].appends = @ + 1, ![t].in_try = FALSE]
       ELSE /\ threads' = [threads EXCEPT ![t] = IdleThread]
            /\ UNCHANGED scan_history
    /\ UNCHANGED <<history_file, served>>
    /\ UNCHANGED <<avars, nvars>>

\* save_history, line 16: json.dump(scan_history, f, indent=2) starts.
\* With an indent the encoder is the one written in Python, which other
\* threads interleave with: it writes "[]" for a log that is empty now, and
\* else goes on to iterate over the log.
SaveDump(t) ==
    /\ threads[t].pc = "save_dump"
    /\ threads' =
          [threads EXCEPT ![t].pc = IF scan_history = <<>> THEN "save_close" ELSE "save_item",
                          ![t].buf = [entries |-> <<>>, bracket |-> scan_history = <<>>]]
    /\ UNCHANGED <<scan_history, history_file, served>>
    /\ UNCHANGED <<avars, nvars>>

\* json.dump, the loop over the log: the iterator hands out the entry at
\* its index in the log as it is now, and its text goes to the buffer of
\* this thread's file object.
SaveItem(t) ==
    /\ threads[t].pc = "save_item"
    /\ Len(threads[t].buf.entries) < Len(scan_history)
    /\ threads' =
          [threads EXCEPT ![t].buf =
              [entries |-> Append(@.entries, scan_history[Len(@.entries) + 1]),
               bracket |-> TRUE]]
    /\ UNCHANGED <<scan_history, history_file, served>>
    /\ UNCHANGED <<avars, nvars>>

\* json.dump, the end of the loop: the iterator is at or past the end of
\* the log as it is now; "\n]" closes the text.  The opening bracket is
\* written with the first entry: a log emptied before the loop fetched one
\* leaves the text "\n]".
SaveEnd(t) ==
    /\ threads[t].pc = "save_item"
    /\ Len(threads[t].buf.entries) >= Len(scan_history)
    /\ threads' = [threads EXCEPT ![t].pc = "save_close"]
    /\ UNCHANGED <<scan_history, history_file, served>>
    /\ UNCHANGED <<avars, nvars>>

\* save_history, the end of the with block: the text is written from the
\* start of the file, over what other threads wrote since the last open;
\* of a longer text the rest stays behind it.  The handler then returns
\* its response.  Up to here the text was in the buffer of the file
\* object: it holds 8192 bytes, more than the text of any log of ScanUrls
\* (DumpBuffered).
SaveClose(t) ==
    /\ threads[t].pc = "save_close"
    /\ history_file' =
          [exists |-> TRUE,
           size |-> IF history_file.size > DumpLen(threads[t].buf.entries)
                    THEN history_file.size ELSE DumpLen(threads[t].buf.entries),
           bracket |-> threads[t].buf.bracket,
           entries |-> threads[t].buf.entries]
    /\ threads' = [threads EXCEPT ![t] = IdleThread]
    /\ UNCHANGED <<scan_history, served>>
    /\ UNCHANGED <<avars, nvars>>

\* get_stats, lines 65-73: reads the log.
Stats(t) ==
    /\ threads[t].pc = "stats"
    /\ threads' = [threads EXCEPT ![t] = IdleThread]
    /\ UNCHANGED <<scan_history, history_file, served>>
    /\ UNCHANGED <<avars, nvars>>

\* download_report, lines 271-290: reads one entry of the log, or answers
\* 400 for an index past its end.
Download(t) ==
    /\ threads[t].pc = "download"
    /\ threads' = [threads EXCEPT ![t] = IdleThread]
    /\ UNCHANGED <<scan_history, history_file, served>>
    /\ UNCHANGED <<avars, nvars>>

\* set_theme, lines 292-297: writes the session only.
SetTheme(t) ==
    /\ threads[t].pc = "theme"
    /\ threads' = [threads EXCEPT ![t] = IdleThread]
    /\ UNCHANGED <<scan_history, history_file, served>>
    /\ UNCHANGED <<avars, nvars>>

ServiceNext ==
    \/ \E t \in Threads, r \in Requests : Receive(t, r)
    \/ \E t \in Threads : ScanReject(t)
    \/ \E t \in Threads : ScanTrusted(t)
    \/ \E t \in Threads : ScanAnalysed(t)
    \/ \E t \in Threads : ScanFallback(t)
    \/ \E t \in Threads : ClearHistory(t)
    \/ \E t \in Threads : SaveOpen(t)
    \/ \E t \in Threads : SaveOpenFails(t)
    \/ \E t \in Threads : SaveDump(t)
    \/ \E t \in Threads : SaveItem(t)
    \/ \E t \in Threads : SaveEnd(t)
    \/ \E t \in Threads : SaveClose(t)
    \/ \E t \in Threads : Stats(t)
    \/ \E t \in Threads : Download(t)
    \/ \E t \in Threads : SetTheme(t)

SpecService == ServiceInit /\ [][ServiceNext]_vars

(***************************************************************************)
(* Properties.                                                             *)
(***************************************************************************)

\* The weight a finding contributes: its WEIGHTS entry, 3 for a resolved
\* host of another domain.
WeightOf(f) == IF f.kind = "dns_mismatch" THEN 3 ELSE WEIGHTS[f.kind]

RECURSIVE SumWeights(_)
SumWeights(fs) == IF fs = <<>> THEN 0 ELSE WeightOf(Head(fs)) + SumWeights(Tail(fs))

\* The findings of one kind, in order.
OfKind(fs, kind) == SelectSeq(fs, LAMBDA f : f.kind = kind)

Count(fs, kind) == Len(OfKind(fs, kind))

Analysed == pc = "done" /\ ~report.context.trusted_domain

\* A page was obtained and inspected.
ContentObtained == RespTrue(resp) /\ resp.status = 200

FetchCalls == SelectSeq(calls, LAMBDA c : c.fn = "fetch")

\* C1: once analyze has found the registrable domain of its input on the
\* allow-list, it has returned: the report has score 0, verdict "Likely
\* safe", the trusted flag and no findings, and no collector (name
\* resolution, TLS probe, registration lookup, page fetch) was called.
C1_TrustedShortCircuit ==
    (pc \notin {"idle", "raised"} /\ is_trusted_domain(domain)) =>
        /\ calls = <<>>
        /\ pc = "done"
        /\ report.returned
        /\ report.domain = domain
        /\ report.risk_score = 0
        /\ report.verdict = "Likely safe"
        /\ report.context.trusted_domain
        /\ report.threats = <<>>

C1_Witness ==
    /\ pc = "done"
    /\ report.context.trusted_domain
    /\ report.host = Chars("accounts.google.com")
    /\ report.domain = Chars("google.com")

\* C2: analyze never raises: no call ends in an exception, whatever the
\* input string.
C2_NeverRaises == pc # "raised"

\* C3: the verdict is decided by the score alone: 35 and more is
\* "Phishing", 20 to 34 "Suspicious", less than 20 "Likely safe"; every
\* returned report carries exactly one of these three values, the one of
\* its score.
C3_VerdictOfScore ==
    /\ Verdict(35) = "Phishing"
    /\ Verdict(34) = "Suspicious"
    /\ Verdict(20) = "Suspicious"
    /\ Verdict(19) = "Likely safe"
    /\ pc = "done" =>
          /\ report.verdict \in {"Phishing", "Suspicious", "Likely safe"}
          /\ report.risk_score >= 35 => report.verdict = "Phishing"
          /\ (report.risk_score >= 20 /\ report.risk_score < 35) => report.verdict = "Suspicious"
          /\ report.risk_score < 20 => report.verdict = "Likely safe"

C3_Witness == pc = "done" /\ report.risk_score = 35 /\ report.verdict = "Phishing"

\* C4: at every step the running score is the sum of the weights of the
\* findings appended so far; within a call findings are only appended and
\* the score never decreases; the reported score is that sum, unclamped.
C4_Sum == score = SumWeights(findings)

C4_Reported ==
    Analysed => report.threats = findings /\ report.risk_score = SumWeights(report.threats)

C4_AppendOnly ==
    pc' # "idle" =>
        /\ Len(findings') >= Len(findings)
        /\ SubSeq(findings', 1, Len(findings)) = findings
        /\ score' >= score

C4_ScoreIsSumOfFindings == [](C4_Sum /\ C4_Reported) /\ [][C4_AppendOnly]_vars

C4_Witness == Analysed /\ report.risk_score > 100 /\ Len(report.threats) > 10

\* C5: normalize_url is idempotent: applied to its own result it returns
\* that result.
C5_NormalizeIdempotent == npc = 2 => nout[2] = nout[1]

\* C6: in an analysis that was not cut short by the allow-list, a failed
\* name resolution gives a false resolution flag and exactly one "DNS
\* resolution failed" finding, which adds 6 to the score; a successful one
\* gives a true flag and no such finding.
C6_Reported ==
    /\ Count(findings, "dns_missing") =< 1
    /\ Analysed =>
          IF dns.found
          THEN report.context.dns_resolve /\ Count(report.threats, "dns_missing") = 0
          ELSE ~report.context.dns_resolve /\ Count(report.threats, "dns_missing") = 1

C6_Step ==
    (pc = "dns" /\ pc' = "tls") =>
        IF dns'.found
        THEN Count(findings', "dns_missing") = 0
        ELSE /\ findings' = Append(findings, Finding("HIGH", "dns_missing", <<>>, 0))
             /\ score' = score + 6

C6_ResolutionFailure == []C6_Reported /\ [][C6_Step]_vars

C6_Witness == Analysed /\ ~dns.found /\ Count(report.threats, "dns_missing") = 1

\* C7: when a fetched page is inspected, each form whose action has a
\* registrable domain other than the page's adds one HIGH finding, one
\* entry of the form-action evidence and 8 to the score: n such forms add
\* 8 * n.
C7_Step ==
    (pc = "content" /\ pc' = "verdict" /\ ContentObtained) =>
        LET forms == resp.page.forms
            n == Cardinality({i \in 1..Len(forms) : IsExternal(forms[i], domain)})
            new == SubSeq(findings', Len(findings) + 1, Len(findings'))
            byForms == OfKind(new, "external_form_action")
            others == SelectSeq(new, LAMBDA f : f.kind # "external_form_action")
        IN  /\ Len(byForms) = n
            /\ \A i \in 1..n : byForms[i].severity = "HIGH"
            /\ Len(sources'.form_actions) = n
            /\ \A i \in 1..n : sources'.form_actions[i] = byForms[i].text
            /\ (score' - score) - SumWeights(others) = 8 * n

C7_EachExternalFormCounts == [][C7_Step]_vars

C7_Witness ==
    /\ pc = "verdict"
    /\ ContentObtained
    /\ resp.page.forms = <<Chars("https://evil.tk/collect"), Chars("https://evil.tk/collect")>>
    /\ Count(findings, "external_form_action") = 2
    /\ sources.form_actions = resp.page.forms

\* The end-to-end example: the pay-now URL, name resolution failing, no
\* registration record, no page obtained.
PayNowCase ==
    /\ pc = "done"
    /\ url = PayNowUrl
    /\ ~dns.found
    /\ ~age_days.known
    /\ ~ContentObtained

PayNowReport(keyword) ==
    /\ Len(report.threats) = 4
    /\ \E i \in 1..4 : report.threats[i] = Finding("LOW", "suspicious_keywords", keyword, 0)
    /\ \E i \in 1..4 : report.threats[i] = Finding("LOW", "suspicious_tld", Chars("xyz"), 0)
    /\ \E i \in 1..4 : report.threats[i] = Finding("HIGH", "dns_missing", <<>>, 0)
    /\ \E i \in 1..4 : report.threats[i] = Finding("HIGH", "no_https", <<>>, 0)
    /\ WEIGHTS.suspicious_keywords = 3
    /\ WEIGHTS.suspicious_tld = 4
    /\ WEIGHTS.dns_missing = 6
    /\ WEIGHTS.no_https = 0
    /\ report.risk_score = 13
    /\ report.verdict = "Likely safe"

\* C8 as stated: in the end-to-end example the findings are one keyword
\* finding naming "pay-now", one suspicious-TLD finding for xyz, one
\* resolution failure and one no-HTTPS finding; score 13, "Likely safe".
C8_PayNowNamed == PayNowCase => PayNowReport(Chars("pay-now"))

\* C8 amended: as stated, but the keyword finding names "login-secure", the
\* first entry of the keyword list that occurs in the URL.
C8_LoginSecureNamed == PayNowCase => PayNowReport(Chars("login-secure"))

C8_Witness == PayNowCase /\ Len(FetchCalls) = 2

\* C9: the password-over-HTTP finding is added at most once, and exactly
\* when a page was obtained, it has a password input, and the URL whose
\* fetch obtained it is a plain-HTTP one (not the HTTPS retry).
C9_PasswordOverHttp ==
    /\ Count(findings, "password_over_http") =< 1
    /\ (pc = "verdict" \/ Analysed) =>
          (Count(findings, "password_over_http") = 1
             <=> /\ ContentObtained
                 /\ resp.page.passwords > 0
                 /\ urlparse(FetchCalls[Len(FetchCalls)].arg).scheme = Chars("http"))

C9_Witness ==
    /\ Analysed
    /\ ContentObtained
    /\ resp.page.passwords > 1
    /\ OfKind(report.threats, "password_over_http")
         = <<Finding("HIGH", "password_over_http", <<>>, resp.page.passwords)>>

\* C11: the page fetch is attempted at most twice; a second attempt is made
\* only after a first attempt that failed (no response, or a response that
\* is false: status 400 and above) on a plain-HTTP URL, and it asks for the
\* same URL with the scheme https; a failed fetch of an HTTPS URL is not
\* retried; when no attempt succeeds the content stage adds no finding, no
\* evidence and nothing to the score.
C11_Calls ==
    /\ Len(FetchCalls) =< 2
    /\ Len(FetchCalls) = 2 =>
          /\ urlparse(FetchCalls[1].arg).scheme = Chars("http")
          /\ SubSeq(FetchCalls[1].arg, 1, 7) = Chars("http://")
          /\ FetchCalls[2].arg = Chars("https://") \o From(FetchCalls[1].arg, 8)
    /\ (Len(FetchCalls) >= 1 /\ pc \in {"content", "verdict", "done"}
          /\ urlparse(FetchCalls[1].arg).scheme = Chars("https")) => Len(FetchCalls) = 1

C11_Step ==
    /\ (Len(FetchCalls) = 1 /\ Len(FetchCalls') = 2) => ~RespTrue(resp)
    /\ (pc = "content" /\ pc' = "verdict" /\ ~RespTrue(resp)) =>
          /\ findings' = findings
          /\ score' = score
          /\ sources' = NoSources

C11_FetchAtMostTwice == []C11_Calls /\ [][C11_Step]_vars

C11_Witness ==
    /\ Analysed
    /\ Len(FetchCalls) = 2
    /\ ~RespTrue(resp)
    /\ resp.answered
    /\ report.sources = NoSources

\* C10: the TLS probe is made only in an analysis whose normalized URL has
\* the scheme https.
C10_TlsOnlyForHttps ==
    (\E i \in 1..Len(calls) : calls[i].fn = "get_tls_cert") =>
        urlparse(normalize_url(url).value).scheme = Chars("https")

\* The names a resolution returned: the canonical hostname and the aliases.
ResolvedNames(r) == <<r.hostname>> \o r.aliaslist

\* C12: after a successful resolution, every returned hostname or alias
\* that is no address literal and whose registrable domain differs from the
\* request's domain has added one MEDIUM mismatch finding and 3 to the
\* score; the other names have added nothing.
C12_MismatchPerHostname ==
    (pc \in {"tls", "whois", "fetch", "retry", "content", "verdict"} /\ dns.found) =>
        LET foreign == SelectSeq(ResolvedNames(dns),
                                 LAMBDA h : ~is_ip(h) /\ domain_parts(h) # domain)
        IN  /\ Count(findings, "dns_mismatch") = Len(foreign)
            /\ \A i \in 1..Len(findings) :
                  findings[i].kind = "dns_mismatch" => findings[i].severity = "MEDIUM"
            /\ SumWeights(OfKind(findings, "dns_mismatch")) = 3 * Len(foreign)

\* The lexical checks of this analysis are done.
LexicalDone == pc \in {"dns", "tls", "whois", "fetch", "retry", "content", "verdict"}

Labels(h) == Split(h, ".")

NonEmptyLabels(h) == Cardinality({i \in 1..Len(Labels(h)) : Labels(h)[i] # <<>>})

ManySubdomains == OfKind(findings, "too_many_subdomains")

\* C13 as stated: the many-subdomains finding (LOW, weight 2) is there
\* exactly when the host has 6 or more dot-separated labels.
C13_SixLabels ==
    LexicalDone =>
        /\ Len(ManySubdomains) = (IF Len(Labels(host)) >= 6 THEN 1 ELSE 0)
        /\ \A i \in 1..Len(ManySubdomains) :
              ManySubdomains[i].severity = "LOW" /\ WeightOf(ManySubdomains[i]) = 2

\* C13 amended: the finding (LOW, weight 2) is there exactly when the
\* subdomain count is 6 or more, the count being the number of non-empty
\* labels of the host less 2 when the registrable domain occurs in the
\* host, and the number of dots otherwise; a host of 5, 6 or 7 labels that
\* contains its domain does not have it, one of 8 labels has.
C13_SixSubdomains ==
    LexicalDone =>
        LET n == IF Contains(host, domain) THEN NonEmptyLabels(host) - 2
                 ELSE CountChar(host, ".")
        IN  /\ Len(ManySubdomains) = (IF n >= 6 THEN 1 ELSE 0)
            /\ \A i \in 1..Len(ManySubdomains) :
                  /\ ManySubdomains[i].severity = "LOW"
                  /\ WeightOf(ManySubdomains[i]) = 2
                  /\ ManySubdomains[i].count = n
            /\ (Contains(host, domain) /\ NonEmptyLabels(host) \in 5..7)
                  => ManySubdomains = <<>>
            /\ (Contains(host, domain) /\ NonEmptyLabels(host) = 8)
                  => Len(ManySubdomains) = 1

C13_Witness ==
    /\ LexicalDone
    /\ host = Chars("a.b.c.d.e.f.evil-site.top")
    /\ Len(ManySubdomains) = 1
    /\ ManySubdomains[1].count = 6

\* The brand occurs in the text, whatever the case of the letters.
Names(text, brand) == Contains(Lower(text), Lower(brand))

TitleFindings == OfKind(findings, "brand_title_mismatch")

\* C14 as stated: the title/brand-mismatch finding (MEDIUM, weight 3) is
\* added exactly when some brand of the list occurs in the page title and
\* not in the domain, also when another brand of the title occurs in the
\* domain.
C14_SomeBrandMissing ==
    pc = "verdict" =>
        /\ Len(TitleFindings) =< 1
        /\ Len(TitleFindings) = 1 <=>
              /\ ContentObtained
              /\ resp.page.has_title
              /\ \E i \in 1..Len(BRAND_HINTS) :
                    /\ Names(resp.page.title, BRAND_HINTS[i])
                    /\ ~Names(domain, BRAND_HINTS[i])

\* C14 amended: the finding (MEDIUM, weight 3) is added exactly when the
\* page title names at least one brand of the list and no brand named in
\* the title occurs in the domain.
C14_NoTitleBrandInDomain ==
    pc = "verdict" =>
        /\ Len(TitleFindings) =< 1
        /\ \A i \in 1..Len(TitleFindings) :
              TitleFindings[i].severity = "MEDIUM" /\ WeightOf(TitleFindings[i]) = 3
        /\ Len(TitleFindings) = 1 <=>
              /\ ContentObtained
              /\ resp.page.has_title
              /\ \E i \in 1..Len(BRAND_HINTS) : Names(resp.page.title, BRAND_HINTS[i])
              /\ \A i \in 1..Len(BRAND_HINTS) :
                    Names(resp.page.title, BRAND_HINTS[i]) => ~Names(domain, BRAND_HINTS[i])

C14_Witness ==
    /\ pc = "verdict"
    /\ ContentObtained
    /\ resp.page.title = Chars("PayPal Bank")
    /\ domain = Chars("example-shop.com")
    /\ Len(TitleFindings) = 1

\* C15: the normalized URL, its parsed scheme and the HTTPS-usage flag that
\* the earlier collectors and the report read are the ones computed from
\* the input before the content stage; the page fetch, its HTTPS retry
\* included, leaves them as they were.
C15_CollectorsReadOnly ==
    (pc \in {"fetch", "retry", "content", "verdict"} \/ Analysed) =>
        \E n \in {normalize_url(url)} :
            /\ normalized = n.value
            /\ parsed.scheme = urlparse(n.value).scheme
            /\ uses_https = (urlparse(n.value).scheme = Chars("https"))

\* C17: in every report of an analysis that was not cut short by the
\* allow-list, the "No HTTPS (plain HTTP)" finding is among the findings
\* exactly when the HTTPS-usage flag of the context is false, and the
\* reported normalized URL has the scheme https exactly when it is true.
C17_HttpsFlagConsistent ==
    Analysed =>
        /\ Count(report.threats, "no_https") >= 1 <=> ~report.context.uses_https
        /\ urlparse(report.normalized_url).scheme = Chars("https")
              <=> report.context.uses_https

\* The log after a step still starts with the log before it: no entry was
\* removed, reordered or changed.
LogKept == /\ Len(scan_history') >= Len(scan_history)
           /\ SubSeq(scan_history', 1, Len(scan_history)) = scan_history

\* C16 as stated: whatever the requests (scan, stats, download,
\* clear-history, theme), every step of the service keeps the entries of
\* the scan log at their index and never shortens the log.
C16_AppendOnly == [][LogKept]_vars

\* C16, amended: every step of a scan, stats, download or theme request
\* keeps the entries of the scan log at their index and never shortens the
\* log; the only step that does not is the clear of a clear-history
\* request, which empties the log.
C16_AppendOnlyUntilCleared ==
    [][\/ LogKept
       \/ /\ scan_history' = <<>>
          /\ \E t \in Threads : threads[t].pc = "clear" /\ threads'[t].pc = "save_open"]_vars

\* A clear-history request has emptied the log, and a scan that was
\* running at the time has appended its entry to the empty log.
C16_Witness ==
    /\ Len(scan_history) = 1
    /\ \E t, c \in Threads :
          /\ threads[t].req.kind = "scan" /\ threads[t].appends = 1
          /\ threads[c].req.kind = "clear" /\ threads[c].pc = "save_close"
          /\ threads[c].buf = [entries |-> <<>>, bracket |-> TRUE]

\* The close is the only write to the file: every text that json.dump
\* writes is shorter than the buffer of the file object, 8192 bytes.
DumpBuffered == \A t \in Threads : DumpLen(threads[t].buf.entries) < 8192

\* No thread is handling a request.
Quiescent == \A t \in Threads : threads[t].pc = "idle"

\* C18: (a) a scan request with a URL appends exactly one entry between
\* its start and its save, whichever path it takes; (b) when every request has
\* been answered, the history file holds a dump of the log in memory
\* (before the first save, no file and an empty log).
C18_PersistedLogConsistent ==
    /\ \A t \in Threads :
          (threads[t].req.kind = "scan" /\ threads[t].req.url # <<>>)
              => threads[t].appends = (IF threads[t].pc = "scan" THEN 0 ELSE 1)
    /\ Quiescent => load_history(history_file) = [ok |-> TRUE, log |-> scan_history]


====
